---- MODULE Spec2Model ----
(***************************************************************************)
(* A model of the AI-Transcriber job pipeline (backend/app):               *)
(*   - the circuit breaker of LlmClient (core/llm.py) with the health      *)
(*     status it reports (services/health_service.py);                     *)
(*   - the concurrency limit of a transcriber handle                       *)
(*     (services/transcription.py);                                        *)
(*   - the Celery task chain transcribe -> auto-correct ->                 *)
(*     speaker-identify -> summarize (tasks.py);                           *)
(*   - the transcriber cache (tasks.py);                                   *)
(*   - the health snapshots of the LlmClient instances of a process        *)
(*     (services/health_service.py);                                       *)
(*   - the event bus and the /events streams (services/event_service.py,   *)
(*     api/v1/endpoints/system.py);                                        *)
(*   - the queue endpoints (api/v1/endpoints/system.py,                    *)
(*     services/queue_service.py).                                         *)
(* Each component has its own specifications (SpecCircuit, SpecPool,       *)
(* SpecPipeline, ...) over the shared variables; a specification leaves    *)
(* the variables of the other components at their initial values.          *)
(***************************************************************************)
EXTENDS Integers, Sequences, FiniteSets, TLC

(***************************************************************************)
(* Bounds of the model                                                     *)
(***************************************************************************)
\* coroutines that may be inside LlmClient.generate at the same time
MaxGenCallers == 2
\* recovery-prober tasks that can exist at the same time (asyncio tasks)
MaxProbers == 2
\* coroutines that call transcribe() of the transcriber handles in one loop
MaxTranscribeCallers == 3
\* callers of TranscriberCache.get_transcriber, and transcribers they construct
MaxCacheCallers == 2
MaxCreated == 2
\* LlmClient instances that report to the SystemHealthService of one process
MaxClients == 2
\* /events connections, and messages published while they are observed
MaxStreams == 1
MaxPublished == 2
\* tasks sent to the broker
MaxTasks == 3
\* tasks sent to one queue while no worker keeps up: one more than lrange reads
MaxBacklog == 51

(***************************************************************************)
(* Program constants                                                       *)
(***************************************************************************)
\* LlmClient.__init__: self.max_failures = 2
max_failures == 2
\* MaxAccuracyTranscriber.__init__ / WhisperCppTranscriber.__init__:
\* max_concurrency=2
max_concurrency == 2
\* @celery_app.task(... max_retries=3) of transcribe_audio_task
transcribe_max_retries == 3
\* @celery_app.task(... max_retries=2) of the downstream stage tasks
stage_max_retries == 2
\* parse_broker_queue(queue_name, limit=50)
limit == 50

VARIABLES
    \* ---- LlmClient (core/llm.py) ----
    circuit_open,          \* self.circuit_open
    consecutive_failures,  \* self.consecutive_failures
    genPc,                 \* position of each coroutine in generate()
    genSawOpen,            \* what the `if self.circuit_open` test of the call saw
    genNet,                \* whether the call issued client.post
    genRet,                \* what the call returned: "none" (None) / "content"
    chkPc,                 \* position of a caller of check_connection()
    prober,                \* position of each _monitor_recovery task
    streak,                \* failed generate() calls since the last success
    \* ---- SystemHealthService (services/health_service.py) ----
    llm_status,            \* self.llm_status
    llm_error,             \* self.llm_error
    \* ---- transcriber handles (services/transcription.py) ----
    semaphore,             \* self._semaphore of each handle: "None" / "created"
    sem_value,             \* the semaphore's free slots
    sem_waiters,           \* callers blocked in acquire, in arrival order
    txPc,                  \* position of each caller in transcribe()
    txHandle,              \* the handle the caller called
    txResult,              \* how the caller's last call ended
    \* ---- the task chain of one job (tasks.py) ----
    skip_context,          \* settings.SKIP_CONTEXT_EXTRACTION
    state,                 \* Celery state of each stage task of the job
    pc,                    \* position inside the running stage task
    retries,               \* self.request.retries of each stage task
    countdown,             \* the countdown of the last transcribe retry
    payload,               \* the result dict each stage task works on
    returned,              \* what generate_summary_task returned
    enqueued,              \* .delay() calls made: <<caller, task>> -> count
    db_transcriptions,     \* committed Transcription ids
    db_corrections,        \* ids with a committed 'auto_llm' correction
    events,                \* the publish_event calls made
    attempt,               \* locals of the running transcribe_audio_task attempt
    summarized,            \* the text the last generate_summary call worked on
    naming,                \* what the last run of speaker naming did
    \* ---- TranscriberCache (tasks.py) ----
    whisper_cpp_available, \* self._whisper_cpp_available
    cache,                 \* self._cache: key -> handle
    created,               \* transcriber objects constructed so far
    warm_up_calls,         \* warm_up() invocations per key
    gtPc,                  \* position of each caller in get_transcriber()
    gtKey,                 \* the cache_key of the caller's call
    gtNew,                 \* the transcriber the caller constructed
    gtRet,                 \* what the caller's last call returned or raised
    \* ---- the LlmClient instances and the one SystemHealthService ----
    client_open,           \* self.circuit_open of each LlmClient instance
    transcriber_status,    \* self.transcriber_status
    speaker_diarization_status, \* self.speaker_diarization_status
    last_published,        \* what the last set_*_status call published
    \* ---- EventService and the /events streams (event_service.py, system.py) ----
    pubCount,              \* messages Redis has accepted so far
    last_publish,          \* outcome and result of the last publish_event call
    streamPc,              \* position of each events_stream generator
    task_id,               \* whether the connection named a task id
    task_read,             \* how reading AsyncResult(task_id).status ended
    inbox,                 \* messages Redis has sent to the connection's pubsub
    out,                   \* what the generator has yielded to its client
    sub_from,              \* pubCount when psubscribe returned
    \* ---- the broker's queues and the workers' revoked set (Celery) ----
    broker,                \* the Redis list of each queue: pending task ids
    revoked,               \* task ids the workers have been told to discard
    sent                   \* task ids sent to the broker so far

circuitVars == <<circuit_open, consecutive_failures, genPc, genSawOpen, genNet,
                 genRet, chkPc, prober, streak, llm_status, llm_error>>

poolVars == <<semaphore, sem_value, sem_waiters, txPc, txHandle, txResult>>

chainVars == <<skip_context, attempt, summarized, naming, state, pc, retries, countdown, payload, returned,
               enqueued, db_transcriptions, db_corrections, events>>

cacheVars == <<whisper_cpp_available, cache, created, warm_up_calls,
               gtPc, gtKey, gtNew, gtRet>>

healthVars == <<client_open, transcriber_status, speaker_diarization_status,
                last_published>>

\* the variables of the components added to the four above
busVars == <<pubCount, last_publish, streamPc, task_id, task_read, inbox, out,
             sub_from>>

queueVars == <<broker, revoked, sent>>

auxVars == <<healthVars, busVars, queueVars>>

vars == <<circuitVars, poolVars, chainVars, cacheVars, auxVars>>

GenCallers == 1..MaxGenCallers
Probers == 1..MaxProbers

(***************************************************************************)
(* SystemHealthService.set_llm_status: update (and publish) only on change *)
(***************************************************************************)
set_llm_status(status, error) ==
    IF llm_status = status /\ llm_error = error
    THEN UNCHANGED <<llm_status, llm_error>>
    ELSE /\ llm_status' = status
         /\ llm_error' = error

(***************************************************************************)
(* LlmClient.__init__                                                      *)
(***************************************************************************)
LlmClientInit ==
    /\ circuit_open = FALSE
    /\ consecutive_failures = 0
    /\ genPc = [c \in GenCallers |-> "idle"]
    /\ genSawOpen = [c \in GenCallers |-> FALSE]
    /\ genNet = [c \in GenCallers |-> FALSE]
    /\ genRet = [c \in GenCallers |-> "none"]
    /\ chkPc = "idle"
    /\ prober = [p \in Probers |-> "dead"]
    /\ streak = 0
    /\ llm_status = "initializing"
    /\ llm_error = "None"

\* the _monitor_recovery tasks that exist, and those that have entered the loop
AliveProbers == {p \in Probers : prober[p] # "dead"}
ProbersInLoop == {p \in Probers : prober[p] \notin {"dead", "start"}}

\* asyncio.create_task(self._monitor_recovery()): a new task, not yet run.
\* `tasks` is the position of every prober task before the call.
CanSpawn(tasks) == \E p \in Probers : tasks[p] = "dead"
create_task(tasks) ==
    LET p == CHOOSE q \in Probers :
                 tasks[q] = "dead" /\ \A r \in Probers : tasks[r] = "dead" => q <= r
    IN [tasks EXCEPT ![p] = "start"]

\* `if not self.circuit_open:` in _trip_circuit
TripGuard_always(open) == TRUE
TripGuard(open) == ~open

\* LlmClient._trip_circuit; `tasks` as in create_task
trip_circuit(reason, tasks) ==
    IF TripGuard(circuit_open)
    THEN /\ circuit_open' = TRUE
         /\ set_llm_status("unavailable", reason)
         /\ CanSpawn(tasks)
         /\ prober' = create_task(tasks)
    ELSE /\ UNCHANGED <<circuit_open, llm_status, llm_error>>
         /\ prober' = tasks

\* LlmClient._reset_circuit
reset_circuit_keeps_count ==
    /\ circuit_open' = FALSE
    /\ UNCHANGED consecutive_failures
    /\ set_llm_status("ready", "None")
reset_circuit ==
    /\ circuit_open' = FALSE
    /\ consecutive_failures' = 0
    /\ set_llm_status("ready", "None")

\* `if self.consecutive_failures >= self.max_failures:` in generate
ThresholdReached_late(n) == n > max_failures
ThresholdReached_early(n) == n >= max_failures - 1
ThresholdReached(n) == n >= max_failures

\* `if self.circuit_open: return None` at the head of generate
ShortCircuit_never(open) == FALSE
ShortCircuit(open) == open

(***************************************************************************)
(* LlmClient.generate, up to the await of client.post                      *)
(***************************************************************************)
GenerateCall(c) ==
    /\ UNCHANGED <<poolVars, chainVars, cacheVars, auxVars>>
    /\ genPc[c] = "idle"
    /\ genSawOpen' = [genSawOpen EXCEPT ![c] = circuit_open]
    /\ IF ShortCircuit(circuit_open)
       THEN /\ genNet' = [genNet EXCEPT ![c] = FALSE]
            /\ genRet' = [genRet EXCEPT ![c] = "none"]
            /\ UNCHANGED genPc
       ELSE /\ genNet' = [genNet EXCEPT ![c] = TRUE]
            /\ genPc' = [genPc EXCEPT ![c] = "awaiting"]
            /\ UNCHANGED genRet
    /\ UNCHANGED <<circuit_open, consecutive_failures, chkPc, prober, streak,
                   llm_status, llm_error>>

\* the response has status 200
GenerateOk(c) ==
    /\ UNCHANGED <<poolVars, chainVars, cacheVars, auxVars>>
    /\ genPc[c] = "awaiting"
    /\ reset_circuit
    /\ streak' = 0
    /\ genPc' = [genPc EXCEPT ![c] = "idle"]
    /\ genRet' = [genRet EXCEPT ![c] = "content"]
    /\ UNCHANGED <<genSawOpen, genNet, chkPc, prober>>

\* the response has another status, or client.post raised
GenerateFail(c) ==
    /\ UNCHANGED <<poolVars, chainVars, cacheVars, auxVars>>
    /\ genPc[c] = "awaiting"
    /\ \E reason \in {"ollama_error", "connection_failure"} :
          /\ consecutive_failures' = consecutive_failures + 1
          /\ IF ThresholdReached(consecutive_failures + 1)
             THEN trip_circuit(reason, prober)
             ELSE UNCHANGED <<circuit_open, llm_status, llm_error, prober>>
    /\ streak' = streak + 1
    /\ genPc' = [genPc EXCEPT ![c] = "idle"]
    /\ genRet' = [genRet EXCEPT ![c] = "none"]
    /\ UNCHANGED <<genSawOpen, genNet, chkPc>>

(***************************************************************************)
(* LlmClient.check_connection: the effect of the probe's outcome           *)
(***************************************************************************)
CheckOutcomes == {"model_found", "model_missing", "bad_status", "exception"}

check_connection_effect(outcome, tasks) ==
    CASE outcome = "model_found" ->
            /\ reset_circuit
            /\ prober' = tasks
      [] outcome = "model_missing" ->
            /\ set_llm_status("unavailable", "model_missing")
            /\ UNCHANGED <<circuit_open, consecutive_failures>>
            /\ prober' = tasks
      [] outcome = "bad_status" ->
            /\ trip_circuit("ollama_returned", tasks)
            /\ UNCHANGED consecutive_failures
      [] outcome = "exception" ->
            /\ trip_circuit("connection_failed", tasks)
            /\ UNCHANGED consecutive_failures

\* what check_connection returns
check_connection_result(outcome) == outcome = "model_found"

\* a caller other than the prober (application start-up, speaker naming)
CheckCall ==
    /\ UNCHANGED <<poolVars, chainVars, cacheVars, auxVars>>
    /\ chkPc = "idle"
    /\ chkPc' = "awaiting"
    /\ UNCHANGED <<circuit_open, consecutive_failures, genPc, genSawOpen, genNet,
                   genRet, prober, streak, llm_status, llm_error>>

CheckReturn ==
    /\ UNCHANGED <<poolVars, chainVars, cacheVars, auxVars>>
    /\ chkPc = "awaiting"
    /\ \E outcome \in CheckOutcomes :
          /\ check_connection_effect(outcome, prober)
          /\ streak' = IF outcome = "model_found" THEN 0 ELSE streak
    /\ chkPc' = "idle"
    /\ UNCHANGED <<genPc, genSawOpen, genNet, genRet>>

(***************************************************************************)
(* LlmClient._monitor_recovery                                             *)
(***************************************************************************)
\* the task's first step, and every later `while self.circuit_open` test
ProberLoopTest(p) ==
    /\ UNCHANGED <<poolVars, chainVars, cacheVars, auxVars>>
    /\ prober[p] \in {"start", "ret_false"}
    /\ prober' = [prober EXCEPT ![p] = IF circuit_open THEN "sleeping" ELSE "dead"]
    /\ UNCHANGED <<circuit_open, consecutive_failures, genPc, genSawOpen, genNet,
                   genRet, chkPc, streak, llm_status, llm_error>>

\* asyncio.sleep(probe_interval_seconds) is over: check_connection is called
ProberWake(p) ==
    /\ UNCHANGED <<poolVars, chainVars, cacheVars, auxVars>>
    /\ prober[p] = "sleeping"
    /\ prober' = [prober EXCEPT ![p] = "probing"]
    /\ UNCHANGED <<circuit_open, consecutive_failures, genPc, genSawOpen, genNet,
                   genRet, chkPc, streak, llm_status, llm_error>>

\* the probe's answer: check_connection's effect, then it leaves `async with`
\* (an await) before _monitor_recovery continues with the returned value
ProberProbe(p) ==
    /\ UNCHANGED <<poolVars, chainVars, cacheVars, auxVars>>
    /\ prober[p] = "probing"
    /\ \E outcome \in CheckOutcomes :
          /\ check_connection_effect(outcome,
                 [prober EXCEPT ![p] = IF check_connection_result(outcome)
                                       THEN "ret_true" ELSE "ret_false"])
          /\ streak' = IF outcome = "model_found" THEN 0 ELSE streak
    /\ UNCHANGED <<genPc, genSawOpen, genNet, genRet, chkPc>>

\* `if await self.check_connection(): break`
ProberBreak(p) ==
    /\ UNCHANGED <<poolVars, chainVars, cacheVars, auxVars>>
    /\ prober[p] = "ret_true"
    /\ prober' = [prober EXCEPT ![p] = "dead"]
    /\ UNCHANGED <<circuit_open, consecutive_failures, genPc, genSawOpen, genNet,
                   genRet, chkPc, streak, llm_status, llm_error>>

(***************************************************************************)
(* Transcriber handles: MaxAccuracyTranscriber ("faster-whisper") and      *)
(* WhisperCppTranscriber ("whisper-cpp"), called from one event loop       *)
(***************************************************************************)
Handles == {"faster-whisper", "whisper-cpp"}
TranscribeCallers == 1..MaxTranscribeCallers

TranscriberInit ==
    /\ semaphore = [h \in Handles |-> "None"]
    /\ sem_value = [h \in Handles |-> 0]
    /\ sem_waiters = [h \in Handles |-> <<>>]
    /\ txPc = [c \in TranscribeCallers |-> "idle"]
    /\ txHandle = [c \in TranscribeCallers |-> "faster-whisper"]
    /\ txResult = [c \in TranscribeCallers |-> "none"]

\* `if not self._semaphore:` (the semaphore is created lazily, once)
NeedsSemaphore_always(s) == TRUE
NeedsSemaphore(s) == s = "None"

\* asyncio.Semaphore(self.max_concurrency)
SemaphoreCapacity_plus1 == max_concurrency + 1
SemaphoreCapacity == max_concurrency

\* the free slots `async with self._semaphore` finds at handle h
SlotsAtEntry(h) ==
    IF NeedsSemaphore(semaphore[h]) THEN SemaphoreCapacity ELSE sem_value[h]
WaitersAtEntry(h) ==
    IF NeedsSemaphore(semaphore[h]) THEN <<>> ELSE sem_waiters[h]

\* the first awaited operation inside `async with`
FirstPhase(h) == IF h = "whisper-cpp" THEN "converting" ELSE "inferring"

\* the calls that hold a slot and run conversion or inference at handle h
Executing(h) ==
    {c \in TranscribeCallers : txHandle[c] = h /\ txPc[c] \in {"converting", "inferring"}}

\* transcribe() up to its first suspension: the audio file is checked, the
\* semaphore is created if missing, and the slot is taken or waited for
TranscribeCall(c, h) ==
    /\ UNCHANGED chainVars
    /\ txPc[c] = "idle"
    /\ txHandle' = [txHandle EXCEPT ![c] = h]
    /\ \/ \* FileNotFoundError (or a failing warm_up of whisper-cpp)
          /\ txResult' = [txResult EXCEPT ![c] = "raised"]
          /\ UNCHANGED <<semaphore, sem_value, sem_waiters, txPc>>
       \/ /\ semaphore' = [semaphore EXCEPT ![h] = "created"]
          /\ txResult' = [txResult EXCEPT ![c] = "none"]
          /\ IF SlotsAtEntry(h) > 0 /\ WaitersAtEntry(h) = <<>>
             THEN /\ sem_value' = [sem_value EXCEPT ![h] = SlotsAtEntry(h) - 1]
                  /\ sem_waiters' = [sem_waiters EXCEPT ![h] = WaitersAtEntry(h)]
                  /\ txPc' = [txPc EXCEPT ![c] = FirstPhase(h)]
             ELSE /\ sem_value' = [sem_value EXCEPT ![h] = SlotsAtEntry(h)]
                  /\ sem_waiters' = [sem_waiters EXCEPT ![h] = Append(WaitersAtEntry(h), c)]
                  /\ txPc' = [txPc EXCEPT ![c] = "waiting"]
    /\ UNCHANGED <<circuitVars, cacheVars, auxVars>>

\* Semaphore.release as __aexit__ calls it: the slot goes to the first waiter
\* if there is one
release_keeps_slot(c, result) ==
    /\ txResult' = [txResult EXCEPT ![c] = result]
    /\ txPc' = [txPc EXCEPT ![c] = "idle"]
    /\ UNCHANGED <<semaphore, sem_value, sem_waiters, txHandle>>
release(c, result) ==
    LET h == txHandle[c] IN
    /\ txResult' = [txResult EXCEPT ![c] = result]
    /\ IF sem_waiters[h] # <<>>
       THEN /\ sem_waiters' = [sem_waiters EXCEPT ![h] = Tail(@)]
            /\ txPc' = [txPc EXCEPT ![c] = "idle", ![Head(sem_waiters[h])] = "woken"]
            /\ UNCHANGED sem_value
       ELSE /\ sem_value' = [sem_value EXCEPT ![h] = @ + 1]
            /\ txPc' = [txPc EXCEPT ![c] = "idle"]
            /\ UNCHANGED sem_waiters
    /\ UNCHANGED <<semaphore, txHandle>>

\* a woken waiter resumes inside `async with`
TranscribeResume(c) ==
    /\ UNCHANGED chainVars
    /\ txPc[c] = "woken"
    /\ txPc' = [txPc EXCEPT ![c] = FirstPhase(txHandle[c])]
    /\ UNCHANGED <<semaphore, sem_value, sem_waiters, txHandle, txResult>>
    /\ UNCHANGED <<circuitVars, cacheVars, auxVars>>

\* WhisperCppTranscriber: _convert_audio returned, whisper.cpp is started
TranscribeConverted(c) ==
    /\ UNCHANGED chainVars
    /\ txPc[c] = "converting"
    /\ txPc' = [txPc EXCEPT ![c] = "inferring"]
    /\ UNCHANGED <<semaphore, sem_value, sem_waiters, txHandle, txResult>>
    /\ UNCHANGED <<circuitVars, cacheVars, auxVars>>

\* the awaited conversion or inference returned or raised: transcribe()
\* leaves `async with` and returns the result or re-raises
TranscribeEnd(c) ==
    /\ UNCHANGED chainVars
    /\ \/ txPc[c] = "inferring" /\ \E r \in {"returned", "raised"} : release(c, r)
       \/ txPc[c] = "converting" /\ release(c, "raised")
    /\ UNCHANGED <<circuitVars, cacheVars, auxVars>>

\* the caller's task is cancelled at one of the awaits of transcribe():
\* CancelledError leaves Semaphore.acquire (a waiter is dropped from the
\* queue, a waiter that already got the slot gives it back) or leaves
\* `async with` through __aexit__
TranscribeCancel(c) ==
    /\ UNCHANGED chainVars
    /\ \/ /\ txPc[c] = "waiting"
          /\ sem_waiters' = [sem_waiters EXCEPT
                                ![txHandle[c]] = SelectSeq(@, LAMBDA w : w # c)]
          /\ txPc' = [txPc EXCEPT ![c] = "idle"]
          /\ txResult' = [txResult EXCEPT ![c] = "cancelled"]
          /\ UNCHANGED <<semaphore, sem_value, txHandle>>
       \/ /\ txPc[c] \in {"woken", "converting", "inferring"}
          /\ release(c, "cancelled")
    /\ UNCHANGED <<circuitVars, cacheVars, auxVars>>

PoolNext ==
    \/ \E c \in TranscribeCallers, h \in Handles : TranscribeCall(c, h)
    \/ \E c \in TranscribeCallers : TranscribeResume(c)
    \/ \E c \in TranscribeCallers : TranscribeConverted(c)
    \/ \E c \in TranscribeCallers : TranscribeEnd(c)

(***************************************************************************)
(* The task chain of one job: transcribe_audio_task, run_auto_correct_task,*)
(* run_speaker_ident_task, generate_summary_task (tasks.py)                *)
(***************************************************************************)
Stages == {"transcribe", "auto_correct", "speaker_ident", "summary"}
Downstream == Stages \ {"transcribe"}
\* the stage tasks and run_feedback_loop_task, a side task of auto-correct
Tasks == Stages \cup {"feedback"}

\* the Celery task id of the submitted transcribe task (self.request.id)
TaskId == <<"task", 1>>
\* the uuid4 that save_transcription gives the n-th record
RecId(n) == <<"transcription", n>>
\* the id of the next record: a fresh uuid4
NewRecId == RecId(Cardinality(db_transcriptions) + 1)
None == <<"None", 0>>

\* transcript texts: empty, below the word-count thresholds, above them
TextVals == {"", "short", "long"}
\* the distinct `speaker` labels of the merged segments
SpeakerSets == {{}, {"Unknown"}, {"SPEAKER_00"}, {"SPEAKER_00", "Unknown"},
                {"SPEAKER_00", "SPEAKER_01"}}

\* a result dict: the keys the stages read ("absent": no such key)
NoPayload == [id |-> None, text |-> "absent", corrected_text |-> "absent",
              root_task_id |-> None, speakers |-> {}, context_keywords |-> "",
              summary_status |-> "absent", speaker_names |-> "absent"]

\* the task each stage enqueues with .delay()
Successor_skip(stage) ==
    CASE stage = "transcribe" -> "speaker_ident"
      [] stage = "auto_correct" -> "speaker_ident"
      [] stage = "speaker_ident" -> "summary"
      [] OTHER -> "none"
Successor(stage) ==
    CASE stage = "transcribe" -> "auto_correct"
      [] stage = "auto_correct" -> "speaker_ident"
      [] stage = "speaker_ident" -> "summary"
      [] OTHER -> "none"

max_retries(stage) ==
    IF stage = "transcribe" THEN transcribe_max_retries ELSE stage_max_retries

\* Task.retry re-queues the task unless request.retries has reached max_retries
CanRetry_once_more(stage, n) == n <= max_retries(stage)
CanRetry(stage, n) == n < max_retries(stage)

\* countdown=2 ** self.request.retries
retry_countdown_fixed(n) == 2
retry_countdown(n) == 2 ^ n

\* event_service.publish_event(channel=f"app:task_{id}", event_type, ...)
Event(id, type, stage, attempt_no) ==
    [channel |-> id, type |-> type, stage |-> stage, attempt |-> attempt_no]

\* no text: generate_summary has not chosen one
NoText == [source |-> "none", text |-> "absent"]

\* the locals of an attempt before it has set any of them
NoAttempt == [prepass |-> "none", context_keywords |-> "", final_prompt |-> "unset",
              transcription |-> "idle", text |-> "absent",
              diarization |-> "idle", speaker_segments |-> {}]

ChainInit ==
    /\ skip_context \in BOOLEAN
    /\ attempt = NoAttempt
    /\ summarized = NoText
    /\ naming = "none"
    /\ state = [s \in Stages |-> "none"]
    /\ pc = [s \in Stages |-> "idle"]
    /\ retries = [s \in Stages |-> 0]
    /\ countdown = 0
    /\ payload = [s \in Stages |-> NoPayload]
    /\ returned = NoPayload
    /\ enqueued = [e \in (Stages \X Tasks) |-> 0]
    /\ db_transcriptions = {}
    /\ db_corrections = {}
    /\ events = {}

\* transcribe_audio_task.apply_async(args=[...]) in the /transcribe endpoint
Submit ==
    /\ state["transcribe"] = "none"
    /\ state' = [state EXCEPT !["transcribe"] = "PENDING"]
    /\ UNCHANGED <<skip_context, naming, summarized, attempt, pc, retries, countdown, payload, returned, enqueued,
                   db_transcriptions, db_corrections, events>>
    /\ UNCHANGED <<circuitVars, poolVars, cacheVars, auxVars>>

\* a worker takes the queued (or re-queued) task of a stage
Start(stage) ==
    /\ state[stage] \in {"PENDING", "RETRY"}
    /\ state' = [state EXCEPT ![stage] = "STARTED"]
    /\ pc' = [pc EXCEPT ![stage] = "begin"]
    /\ UNCHANGED <<skip_context, naming, summarized, attempt, retries, countdown, payload, returned, enqueued,
                   db_transcriptions, db_corrections, events>>
    /\ UNCHANGED <<circuitVars, poolVars, cacheVars, auxVars>>

At(stage, where) == state[stage] = "STARTED" /\ pc[stage] = where

\* task.delay(p) succeeds: the message with payload p is queued; `after` is
\* the state of the calling task after the step
Delay(by, task, p, after) ==
    /\ state' = [state EXCEPT ![by] = after, ![task] = "PENDING"]
    /\ payload' = [payload EXCEPT ![task] = p]
    /\ enqueued' = [enqueued EXCEPT ![<<by, task>>] = @ + 1]

\* self.retry(exc=e, ...) / autoretry_for=(Exception,): re-queue the task with
\* retries + 1, or let the exception end the task once the retries are used up
Retry(stage) ==
    IF CanRetry(stage, retries[stage])
    THEN /\ state' = [state EXCEPT ![stage] = "RETRY"]
         /\ retries' = [retries EXCEPT ![stage] = @ + 1]
    ELSE /\ state' = [state EXCEPT ![stage] = "FAILURE"]
         /\ UNCHANGED retries

(***************************************************************************)
(* transcribe_audio_task                                                   *)
(***************************************************************************)
\* the task starts: progress event, then transcriber_cache.get_transcriber
TBegin ==
    /\ At("transcribe", "begin")
    /\ events' = events \cup {Event(TaskId, "task_progress", "preprocessing", 0)}
    /\ payload' = [payload EXCEPT !["transcribe"] = NoPayload]
    /\ attempt' = NoAttempt
    /\ \E ok \in BOOLEAN :
          pc' = [pc EXCEPT !["transcribe"] = IF ok THEN "scan" ELSE "except"]
    /\ UNCHANGED <<skip_context, naming, summarized, state, retries, countdown, returned, enqueued,
                   db_transcriptions, db_corrections>>
    /\ UNCHANGED <<circuitVars, poolVars, cacheVars, auxVars>>

\* how pass 1 can end: get_transcriber(backend, "tiny") raises, the fast
\* transcription raises, the text is too short for extraction, the
\* extraction gives nothing (also when the LLM call fails), or keywords
PrepassOutcomes ==
    {"get_transcriber raised", "transcribe raised", "short", "no_keywords", "keywords"}
PrepassFailures == {"get_transcriber raised", "transcribe raised", "no_keywords"}

\* context_keywords after pass 1: every exception is swallowed by
\* `except Exception` and resets it to ""
context_keywords_after_stale(outcome) ==
    IF outcome \in {"keywords", "transcribe raised"} THEN "keywords" ELSE ""
context_keywords_after(outcome) ==
    IF outcome = "keywords" THEN "keywords" ELSE ""

\* pass 1: the fast transcription and the keyword extraction
TContext ==
    /\ At("transcribe", "scan")
    /\ IF skip_context
       THEN /\ attempt' = [attempt EXCEPT !.prepass = "skipped"]
            /\ UNCHANGED events
       ELSE \E outcome \in PrepassOutcomes :
              /\ attempt' = [attempt EXCEPT
                                !.prepass = outcome,
                                !.context_keywords = context_keywords_after(outcome)]
              /\ events' = events
                     \cup {Event(TaskId, "task_progress", "scanning", 0)}
                     \cup (IF outcome = "keywords"
                           THEN {Event(TaskId, "context_extracted", "scanning", 0)}
                           ELSE {})
    /\ pc' = [pc EXCEPT !["transcribe"] = "main"]
    /\ UNCHANGED <<skip_context, naming, summarized, state, retries, countdown, payload, returned, enqueued,
                   db_transcriptions, db_corrections>>
    /\ UNCHANGED <<circuitVars, poolVars, cacheVars, auxVars>>

\* final_prompt = initial_prompt (None), or f"Keywords: {context_keywords}"
final_prompt(kw) == IF kw # "" THEN "Keywords" ELSE "None"

\* pass 2 starts: the progress event, then asyncio.gather(transcription,
\* safe_diarize()) is run on the loop
TGather ==
    /\ At("transcribe", "main")
    /\ events' = events \cup {Event(TaskId, "task_progress", "transcribing", 0)}
    /\ attempt' = [attempt EXCEPT !.final_prompt = final_prompt(attempt.context_keywords),
                                  !.transcription = "running",
                                  !.diarization = "running"]
    /\ pc' = [pc EXCEPT !["transcribe"] = "gather"]
    /\ UNCHANGED <<skip_context, naming, summarized, state, retries, countdown, payload, returned, enqueued,
                   db_transcriptions, db_corrections>>
    /\ UNCHANGED <<circuitVars, poolVars, cacheVars, auxVars>>

\* transcriber.transcribe(...) returns its result or raises
TranscriptionEnd ==
    /\ At("transcribe", "gather")
    /\ attempt.transcription = "running"
    /\ \/ attempt' = [attempt EXCEPT !.transcription = "raised"]
       \/ \E text \in TextVals :
             attempt' = [attempt EXCEPT !.transcription = "returned", !.text = text]
    /\ UNCHANGED <<skip_context, naming, summarized, state, pc, retries, countdown, payload, returned,
                   enqueued, db_transcriptions, db_corrections, events>>
    /\ UNCHANGED <<circuitVars, poolVars, cacheVars, auxVars>>

\* safe_diarize(): spk_service.diarize returns speaker turns (maybe none) or
\* raises, which safe_diarize catches and turns into []
DiarizeEnd ==
    /\ At("transcribe", "gather")
    /\ attempt.diarization = "running"
    /\ \/ attempt' = [attempt EXCEPT !.diarization = "raised"]
       \/ attempt' = [attempt EXCEPT !.diarization = "empty"]
       \/ \E spk \in SpeakerSets \ {{}} :
             attempt' = [attempt EXCEPT !.diarization = "segments",
                                        !.speaker_segments = spk]
    /\ UNCHANGED <<skip_context, naming, summarized, state, pc, retries, countdown, payload, returned,
                   enqueued, db_transcriptions, db_corrections, events>>
    /\ UNCHANGED <<circuitVars, poolVars, cacheVars, auxVars>>

\* what run_until_complete(asyncio.gather(...)) does with the two operations:
\* it raises as soon as the transcription raised, and returns both results
\* once both have finished (safe_diarize never raises)
gathered_strict(a) ==
    IF a.transcription = "raised" \/ a.diarization = "raised" THEN "raise"
    ELSE IF a.transcription = "returned" /\ a.diarization \in {"empty", "segments"}
         THEN "results" ELSE "wait"
gathered(a) ==
    IF a.transcription = "raised" THEN "raise"
    ELSE IF a.transcription = "returned"
            /\ a.diarization \in {"empty", "segments", "raised"}
         THEN "results" ELSE "wait"

\* the speaker labels of result["segments"] after the `finally` block:
\* merge_speaker_segments_with_transcript runs only `if speaker_segments:`
\* and labels the transcript segments (a transcript without text has none)
merged_speakers_unguarded(a) ==
    IF a.text = "" THEN {}
    ELSE IF a.diarization = "segments" THEN a.speaker_segments ELSE {"Unknown"}
merged_speakers(a) ==
    IF a.text = "" THEN {}
    ELSE IF a.diarization = "segments" THEN a.speaker_segments ELSE {}

\* gather returns or raises; result = results[0], the context keywords are
\* put into it if there are any, and the speaker labels are merged in
TGatherEnd ==
    /\ At("transcribe", "gather")
    /\ gathered(attempt) # "wait"
    /\ IF gathered(attempt) = "raise"
       THEN /\ pc' = [pc EXCEPT !["transcribe"] = "except"]
            /\ UNCHANGED payload
       ELSE /\ payload' = [payload EXCEPT
                              !["transcribe"].text = attempt.text,
                              !["transcribe"].speakers = merged_speakers(attempt),
                              !["transcribe"].context_keywords = attempt.context_keywords]
            /\ pc' = [pc EXCEPT !["transcribe"] = "save"]
    /\ UNCHANGED <<skip_context, naming, summarized, attempt, state, retries, countdown, returned, enqueued,
                   db_transcriptions, db_corrections, events>>
    /\ UNCHANGED <<circuitVars, poolVars, cacheVars, auxVars>>

\* the records committed by save_transcription and db.commit()
Committed_nothing(recs, id) == recs
Committed(recs, id) == recs \cup {id}

\* persistence.save_transcription(...); db.commit(); result["id"] = item.id
\* save_transcription commits (line 118) before its last statements, which
\* may still raise
TSave ==
    /\ At("transcribe", "save")
    /\ \/ /\ pc' = [pc EXCEPT !["transcribe"] = "except"]
          /\ UNCHANGED <<db_transcriptions, payload>>
       \/ /\ pc' = [pc EXCEPT !["transcribe"] = "except"]
          /\ db_transcriptions' = Committed(db_transcriptions, NewRecId)
          /\ UNCHANGED payload
       \/ /\ pc' = [pc EXCEPT !["transcribe"] = "enqueue"]
          /\ db_transcriptions' = Committed(db_transcriptions, NewRecId)
          /\ payload' = [payload EXCEPT !["transcribe"].id = NewRecId]
    /\ UNCHANGED <<skip_context, naming, summarized, attempt, state, retries, countdown, returned, enqueued,
                   db_corrections, events>>
    /\ UNCHANGED <<circuitVars, poolVars, cacheVars, auxVars>>

\* run_auto_correct_task.delay(result)
TEnqueue ==
    /\ At("transcribe", "enqueue")
    /\ \/ /\ Delay("transcribe", Successor("transcribe"), payload["transcribe"], "STARTED")
          /\ pc' = [pc EXCEPT !["transcribe"] = "publish"]
       \/ /\ pc' = [pc EXCEPT !["transcribe"] = "except"]
          /\ UNCHANGED <<state, payload, enqueued>>
    /\ UNCHANGED <<skip_context, naming, summarized, attempt, retries, countdown, returned,
                   db_transcriptions, db_corrections, events>>
    /\ UNCHANGED <<circuitVars, poolVars, cacheVars, auxVars>>

\* the transcription_complete event; the task returns result
TFinish ==
    /\ At("transcribe", "publish")
    /\ events' = events \cup {Event(TaskId, "transcription_complete", "transcribe", 0)}
    /\ state' = [state EXCEPT !["transcribe"] = "SUCCESS"]
    /\ pc' = [pc EXCEPT !["transcribe"] = "idle"]
    /\ attempt' = NoAttempt
    /\ UNCHANGED <<skip_context, naming, summarized, retries, countdown, payload, returned, enqueued,
                   db_transcriptions, db_corrections>>
    /\ UNCHANGED <<circuitVars, poolVars, cacheVars, auxVars>>

\* except Exception: the task_failed event, then self.retry(exc=e, countdown=...)
TExcept ==
    /\ At("transcribe", "except")
    /\ events' = events
           \cup {Event(TaskId, "task_failed", "transcribe", retries["transcribe"] + 1)}
    /\ Retry("transcribe")
    /\ countdown' = IF CanRetry("transcribe", retries["transcribe"])
                    THEN retry_countdown(retries["transcribe"]) ELSE countdown
    /\ pc' = [pc EXCEPT !["transcribe"] = "idle"]
    /\ attempt' = NoAttempt
    /\ UNCHANGED <<skip_context, naming, summarized, payload, returned, enqueued,
                   db_transcriptions, db_corrections>>
    /\ UNCHANGED <<circuitVars, poolVars, cacheVars, auxVars>>

(***************************************************************************)
(* run_auto_correct_task                                                   *)
(***************************************************************************)
\* `if not transcription_id: return result`
ValidId(p) == p.id # None

\* the early return of a stage task whose payload carries no usable id
return_result(stage) ==
    /\ state' = [state EXCEPT ![stage] = "SUCCESS"]
    /\ pc' = [pc EXCEPT ![stage] = "idle"]
    /\ UNCHANGED <<skip_context, naming, summarized, attempt, retries, countdown, payload, returned, enqueued,
                   db_transcriptions, db_corrections, events>>

\* AutoCorrectionService.auto_correct returns "" unless the record exists
\* and its raw text has at least 5 words
Correctable(p) == p.id \in db_transcriptions /\ p.text = "long"

\* asyncio.run(auto_service.auto_correct(...)), then, for a non-empty result,
\* run_feedback_loop_task.delay(...); result["corrected_text"] = corrected_text
ACorrect ==
    /\ At("auto_correct", "begin")
    /\ IF ~ValidId(payload["auto_correct"])
       THEN return_result("auto_correct")
       ELSE /\ \/ \* auto_correct raises (a failing query, an unexpected LLM answer)
                  /\ pc' = [pc EXCEPT !["auto_correct"] = "raised"]
                  /\ UNCHANGED <<payload, enqueued, db_corrections>>
               \/ \* nothing corrected: auto_correct returns ""
                  /\ pc' = [pc EXCEPT !["auto_correct"] = "enqueue"]
                  /\ payload' = [payload EXCEPT !["auto_correct"].corrected_text = ""]
                  /\ UNCHANGED <<enqueued, db_corrections>>
               \/ \* the correction is committed, but queueing the feedback task raises
                  /\ Correctable(payload["auto_correct"])
                  /\ db_corrections' = Committed(db_corrections, payload["auto_correct"].id)
                  /\ pc' = [pc EXCEPT !["auto_correct"] = "raised"]
                  /\ UNCHANGED <<payload, enqueued>>
               \/ \* the correction is committed and the feedback task queued
                  /\ Correctable(payload["auto_correct"])
                  /\ db_corrections' = Committed(db_corrections, payload["auto_correct"].id)
                  /\ enqueued' = [enqueued EXCEPT ![<<"auto_correct", "feedback">>] = @ + 1]
                  /\ payload' = [payload EXCEPT !["auto_correct"].corrected_text = "corrected"]
                  /\ pc' = [pc EXCEPT !["auto_correct"] = "enqueue"]
            /\ UNCHANGED <<skip_context, naming, summarized, attempt, state, retries, countdown, returned,
                           db_transcriptions, events>>
    /\ UNCHANGED <<circuitVars, poolVars, cacheVars, auxVars>>

\* summary_payload = {"id", "corrected_text", "text", "root_task_id", "segments"}
summary_payload(p) ==
    [id |-> p.id, text |-> p.text, corrected_text |-> p.corrected_text,
     root_task_id |-> p.root_task_id, speakers |-> p.speakers,
     context_keywords |-> "", summary_status |-> "absent",
     speaker_names |-> "absent"]

\* run_speaker_ident_task.delay(summary_payload); the task returns
AEnqueue ==
    /\ At("auto_correct", "enqueue")
    /\ \/ /\ Delay("auto_correct", Successor("auto_correct"),
                   summary_payload(payload["auto_correct"]), "SUCCESS")
          /\ pc' = [pc EXCEPT !["auto_correct"] = "idle"]
       \/ /\ pc' = [pc EXCEPT !["auto_correct"] = "raised"]
          /\ UNCHANGED <<state, payload, enqueued>>
    /\ UNCHANGED <<skip_context, naming, summarized, attempt, retries, countdown, returned,
                   db_transcriptions, db_corrections, events>>
    /\ UNCHANGED <<circuitVars, poolVars, cacheVars, auxVars>>

\* an exception leaves the task body: autoretry_for=(Exception,)
Raised(stage) ==
    /\ At(stage, "raised")
    /\ Retry(stage)
    /\ pc' = [pc EXCEPT ![stage] = "idle"]
    /\ UNCHANGED <<skip_context, naming, summarized, attempt, countdown, payload, returned, enqueued,
                   db_transcriptions, db_corrections, events>>
    /\ UNCHANGED <<circuitVars, poolVars, cacheVars, auxVars>>

(***************************************************************************)
(* run_speaker_ident_task and generate_summary_task                        *)
(***************************************************************************)
\* channel_id = root_task_id if root_task_id else transcription_id
channel_id(p) == IF p.root_task_id # None THEN p.root_task_id ELSE p.id

\* the progress event each of the two tasks publishes first
StageBegin(stage, label) ==
    /\ At(stage, "begin")
    /\ IF ~ValidId(payload[stage])
       THEN return_result(stage)
       ELSE /\ events' = events \cup {Event(channel_id(payload[stage]), "task_progress", label, 0)}
            /\ pc' = [pc EXCEPT ![stage] = "work"]
            /\ UNCHANGED <<skip_context, naming, summarized, attempt, state, retries, countdown, payload, returned,
                           enqueued, db_transcriptions, db_corrections>>
    /\ UNCHANGED <<circuitVars, poolVars, cacheVars, auxVars>>

\* text_to_analyze = result.get("corrected_text") or result.get("text", "")
text_to_analyze(p) ==
    IF p.corrected_text \notin {"", "absent"} THEN p.corrected_text
    ELSE IF p.text = "absent" THEN "" ELSE p.text

\* len(set(s.get("speaker") for s in segments if s.get("speaker")))
speaker_count(p) == Cardinality(p.speakers)

\* `if speaker_count > 1 and text_to_analyze:`
NamesWanted(p) == speaker_count(p) > 1 /\ text_to_analyze(p) # ""

\* how the naming inside the try block can end once it is wanted:
\* extract_speaker_names_from_transcript gives no names (or something before
\* it raises), or it gives names and update_speaker_names raises after the
\* segments got their speaker_name, or the names are persisted and the
\* speakers_identified event is published
NamingOutcomes == {"no_names", "unsaved", "identified"}

\* the body of the try block: name extraction, persistence and the
\* speakers_identified event; every exception in it is caught
SWork ==
    /\ At("speaker_ident", "work")
    /\ IF ~NamesWanted(payload["speaker_ident"])
       THEN /\ naming' = "skipped"
            /\ UNCHANGED <<events, payload>>
       ELSE \E outcome \in NamingOutcomes :
              /\ naming' = outcome
              /\ payload' = [payload EXCEPT !["speaker_ident"].speaker_names =
                                IF outcome = "no_names" THEN @ ELSE "set"]
              /\ events' = events \cup
                    (IF outcome = "identified"
                     THEN {Event(channel_id(payload["speaker_ident"]),
                                 "speakers_identified", "speaker_ident", 0)}
                     ELSE {})
    /\ pc' = [pc EXCEPT !["speaker_ident"] = "enqueue"]
    /\ UNCHANGED <<skip_context, summarized, attempt, state, retries, countdown,
                   returned, enqueued, db_transcriptions, db_corrections>>
    /\ UNCHANGED <<circuitVars, poolVars, cacheVars, auxVars>>

\* generate_summary_task.delay(result); return result
SEnqueue ==
    /\ At("speaker_ident", "enqueue")
    /\ \/ /\ Delay("speaker_ident", Successor("speaker_ident"),
                   payload["speaker_ident"], "SUCCESS")
          /\ pc' = [pc EXCEPT !["speaker_ident"] = "idle"]
       \/ /\ pc' = [pc EXCEPT !["speaker_ident"] = "raised"]
          /\ UNCHANGED <<state, payload, enqueued>>
    /\ UNCHANGED <<skip_context, naming, summarized, attempt, retries, countdown, returned,
                   db_transcriptions, db_corrections, events>>
    /\ UNCHANGED <<circuitVars, poolVars, cacheVars, auxVars>>

\* a payload field that is present and not empty (truthy)
Present(v) == v \notin {"", "absent"}

\* transcript_text = result.get("corrected_text") or result.get("text"),
\* and generate_summary's fetch from the database `if not text_to_summarize`
\* (latest correction, else raw transcript, else nothing)
text_to_summarize_raw_first(p, stored) ==
    IF Present(p.text) THEN [source |-> "text", text |-> p.text]
    ELSE IF Present(p.corrected_text)
         THEN [source |-> "corrected_text", text |-> p.corrected_text]
         ELSE [source |-> "database", text |-> stored]
text_to_summarize(p, stored) ==
    IF Present(p.corrected_text)
    THEN [source |-> "corrected_text", text |-> p.corrected_text]
    ELSE IF Present(p.text) THEN [source |-> "text", text |-> p.text]
         ELSE [source |-> "database", text |-> stored]

\* len(text_to_summarize.split()) >= 20
LongEnough(text) == text \in {"long", "corrected"}

\* generate_summary on the chosen text: a summary (summary_complete), None
\* (no event: text too short, LLM gave nothing, ...), or an exception in the
\* task (summary_failed); in each case the task returns result
MWork ==
    /\ At("summary", "work")
    /\ \E stored \in TextVals, outcome \in {"summary", "none", "raised"} :
          LET chosen == text_to_summarize(payload["summary"], stored)
              status == IF outcome = "summary" THEN "complete" ELSE "failed"
              result == [payload["summary"] EXCEPT !.summary_status = status]
          IN  /\ outcome = "summary" => LongEnough(chosen.text)
              /\ chosen.source # "database" => stored = ""
              /\ summarized' = chosen
              /\ events' = events \cup
                   (CASE outcome = "summary" ->
                           {Event(channel_id(payload["summary"]), "summary_complete", "summary", 0)}
                      [] outcome = "raised" ->
                           {Event(channel_id(payload["summary"]), "summary_failed", "summary", 0)}
                      [] OTHER -> {})
              /\ payload' = [payload EXCEPT !["summary"] = result]
              /\ returned' = result
    /\ state' = [state EXCEPT !["summary"] = "SUCCESS"]
    /\ pc' = [pc EXCEPT !["summary"] = "idle"]
    /\ UNCHANGED <<skip_context, naming, attempt, retries, countdown, enqueued,
                   db_transcriptions, db_corrections>>
    /\ UNCHANGED <<circuitVars, poolVars, cacheVars, auxVars>>

\* POST /transcriptions/{id}/summarize: the endpoint queues
\* generate_summary_task with {"id", "text"} for a stored record that has
\* text; modelled for the record of a job whose chain has stopped before
\* its summarize stage, so that the record has no summary
SummarizeManual ==
    /\ state["summary"] \notin {"PENDING", "STARTED", "RETRY"}
    /\ state["auto_correct"] = "FAILURE"
    /\ \E id \in db_transcriptions \cap {payload["auto_correct"].id},
          text \in TextVals \ {""} :
          payload' = [payload EXCEPT !["summary"] =
                         [NoPayload EXCEPT !.id = id, !.text = text]]
    /\ state' = [state EXCEPT !["summary"] = "PENDING"]
    /\ UNCHANGED <<skip_context, naming, attempt, summarized, pc, retries, countdown, returned,
                   enqueued, db_transcriptions, db_corrections, events>>
    /\ UNCHANGED <<circuitVars, poolVars, cacheVars, auxVars>>

ChainNext ==
    \/ Submit
    \/ \E stage \in Stages : Start(stage)
    \/ TBegin
    \/ TContext
    \/ TGather
    \/ TranscriptionEnd
    \/ DiarizeEnd
    \/ TGatherEnd
    \/ TSave
    \/ TEnqueue
    \/ TFinish
    \/ TExcept
    \/ ACorrect
    \/ AEnqueue
    \/ \E stage \in {"auto_correct", "speaker_ident"} : Raised(stage)
    \/ StageBegin("speaker_ident", "identifying_speakers")
    \/ StageBegin("summary", "summarizing")
    \/ SWork
    \/ SEnqueue
    \/ MWork

(***************************************************************************)
(* TranscriberCache.get_transcriber (tasks.py)                             *)
(***************************************************************************)
CacheCallers == 1..MaxCacheCallers
ModelSizes == {"tiny", "large-v3"}
\* the backend argument: the two backends and a name that is neither
BackendArgs == Handles \cup {"other"}
\* cache_key = f"{backend}:{model_size}"
cache_key(backend, model_size) == <<backend, model_size>>
CacheKeys == Handles \X ModelSizes
NoHandle == <<"None", 0>>
\* the n-th transcriber object constructed in the process
Transcriber(n) == <<"transcriber", n>>

TranscriberCacheInit ==
    /\ whisper_cpp_available = FALSE
    /\ cache = [k \in CacheKeys |-> NoHandle]
    /\ created = 0
    /\ warm_up_calls = [k \in CacheKeys |-> 0]
    /\ gtPc = [c \in CacheCallers |-> "idle"]
    /\ gtKey = [c \in CacheCallers |-> cache_key("faster-whisper", "tiny")]
    /\ gtNew = [c \in CacheCallers |-> NoHandle]
    /\ gtRet = [c \in CacheCallers |-> NoHandle]

\* TranscriberCache.initialize, run once when the process starts: it finds
\* the whisper.cpp binary or leaves the backend unavailable
Initialize ==
    /\ ~whisper_cpp_available
    /\ created = 0
    /\ \A c \in CacheCallers : gtPc[c] = "idle"
    /\ whisper_cpp_available' = TRUE
    /\ UNCHANGED <<cache, created, warm_up_calls, gtPc, gtKey, gtNew, gtRet>>
    /\ UNCHANGED <<circuitVars, poolVars, chainVars, auxVars>>

\* `if cache_key not in self._cache:`
InCache_never(key) == FALSE
InCache(key) == cache[key] # NoHandle

\* the backend whose transcriber the call creates: whisper-cpp falls back to
\* faster-whisper when the binary is not available
EffectiveBackend(backend) ==
    IF backend = "whisper-cpp" /\ ~whisper_cpp_available
    THEN "faster-whisper" ELSE backend

\* get_transcriber up to the start of warm_up(): a cached key returns at
\* once, an unknown backend raises ValueError, otherwise a transcriber is
\* constructed and its warm_up() invoked
GetTranscriber(c, backend, model_size) ==
    /\ gtPc[c] = "idle"
    /\ IF backend \notin Handles
       THEN /\ gtKey' = [gtKey EXCEPT ![c] = cache_key(backend, model_size)]
            /\ gtRet' = [gtRet EXCEPT ![c] = <<"ValueError", 0>>]
            /\ UNCHANGED <<cache, created, warm_up_calls, gtPc, gtNew>>
       ELSE LET key == cache_key(backend, model_size)
                eff == cache_key(EffectiveBackend(backend), model_size)
            IN  IF InCache(key)
                THEN /\ gtKey' = [gtKey EXCEPT ![c] = key]
                     /\ gtRet' = [gtRet EXCEPT ![c] = cache[key]]
                     /\ UNCHANGED <<cache, created, warm_up_calls, gtPc, gtNew>>
                ELSE IF InCache(eff)
                THEN /\ gtKey' = [gtKey EXCEPT ![c] = eff]
                     /\ gtRet' = [gtRet EXCEPT ![c] = cache[eff]]
                     /\ UNCHANGED <<cache, created, warm_up_calls, gtPc, gtNew>>
                ELSE /\ created < MaxCreated
                     /\ created' = created + 1
                     /\ gtKey' = [gtKey EXCEPT ![c] = eff]
                     /\ gtNew' = [gtNew EXCEPT ![c] = Transcriber(created + 1)]
                     /\ warm_up_calls' = [warm_up_calls EXCEPT ![eff] = @ + 1]
                     /\ gtPc' = [gtPc EXCEPT ![c] = "warm_up"]
                     /\ gtRet' = [gtRet EXCEPT ![c] = NoHandle]
                     /\ UNCHANGED cache
    /\ UNCHANGED whisper_cpp_available
    /\ UNCHANGED <<circuitVars, poolVars, chainVars, auxVars>>

\* warm_up() returns and the transcriber is stored and returned, or warm_up()
\* raises and the exception leaves get_transcriber with nothing stored
WarmUpEnd(c) ==
    /\ gtPc[c] = "warm_up"
    /\ \/ /\ cache' = [cache EXCEPT ![gtKey[c]] = gtNew[c]]
          /\ gtRet' = [gtRet EXCEPT ![c] = gtNew[c]]
       \/ /\ gtRet' = [gtRet EXCEPT ![c] = <<"warm_up raised", 0>>]
          /\ UNCHANGED cache
    /\ gtPc' = [gtPc EXCEPT ![c] = "idle"]
    /\ gtNew' = [gtNew EXCEPT ![c] = NoHandle]
    /\ UNCHANGED <<whisper_cpp_available, created, warm_up_calls, gtKey>>
    /\ UNCHANGED <<circuitVars, poolVars, chainVars, auxVars>>

\* requests made one after the other, as the tasks of a prefork worker
\* process make them
CacheSeqNext ==
    \/ \E c \in CacheCallers, b \in BackendArgs, m \in ModelSizes :
          /\ \A d \in CacheCallers : gtPc[d] = "idle"
          /\ GetTranscriber(c, b, m)
    \/ \E c \in CacheCallers : WarmUpEnd(c)
    \/ Initialize

\* requests of callers that run concurrently in one process
CacheNext ==
    \/ \E c \in CacheCallers, b \in BackendArgs, m \in ModelSizes : GetTranscriber(c, b, m)
    \/ \E c \in CacheCallers : WarmUpEnd(c)
    \/ Initialize

(***************************************************************************)
(* The LlmClient instances of one process and the SystemHealthService      *)
(* singleton they all report to (core/llm.py, services/health_service.py)  *)
(***************************************************************************)
Clients == 1..MaxClients

\* the reasons _trip_circuit is called with
TripReasons == {"ollama_error", "connection_failure", "ollama_returned",
                "connection_failed"}

\* SystemHealthService.get_status: the overall status
get_status(t, l, s) ==
    IF t = "error" THEN "error"
    ELSE IF l \in {"error", "unavailable", "degraded"} THEN "degraded"
    ELSE IF s \in {"error"} THEN "degraded"
    ELSE IF "initializing" \in {t, l, s} THEN "initializing"
    ELSE "ready"

\* no event
NoSnapshot ==
    [overall_status |-> "none", transcriber |-> "none", llm |-> "none",
     llm_error |-> "none", speaker_diarization |-> "none"]

\* the system_status event a set_*_status call publishes on the channel
\* "system_status": the snapshot get_status() returns after the update
system_status(t, l, error, s) ==
    [overall_status |-> get_status(t, l, s), transcriber |-> t,
     llm |-> l, llm_error |-> error, speaker_diarization |-> s]

\* what set_llm_status publishes: nothing when status and error are the
\* ones already recorded
set_llm_status_publishes(status, error) ==
    IF llm_status = status /\ llm_error = error
    THEN NoSnapshot
    ELSE system_status(transcriber_status, status, error,
                       speaker_diarization_status)

HealthInit ==
    /\ client_open = [k \in Clients |-> FALSE]
    /\ transcriber_status = "initializing"
    /\ speaker_diarization_status = "initializing"
    /\ last_published = NoSnapshot

\* _trip_circuit(reason) of client k
ClientTrip(k, reason) ==
    /\ IF ~client_open[k]
       THEN /\ client_open' = [client_open EXCEPT ![k] = TRUE]
            /\ set_llm_status("unavailable", reason)
            /\ last_published' = set_llm_status_publishes("unavailable", reason)
       ELSE UNCHANGED <<client_open, llm_status, llm_error, last_published>>
    /\ UNCHANGED <<transcriber_status, speaker_diarization_status>>
    /\ UNCHANGED <<circuit_open, consecutive_failures, genPc, genSawOpen, genNet,
                   genRet, chkPc, prober, streak>>
    /\ UNCHANGED <<poolVars, chainVars, cacheVars, busVars, queueVars>>

\* _reset_circuit() of client k
ClientReset(k) ==
    /\ client_open' = [client_open EXCEPT ![k] = FALSE]
    /\ set_llm_status("ready", "None")
    /\ last_published' = set_llm_status_publishes("ready", "None")
    /\ UNCHANGED <<transcriber_status, speaker_diarization_status>>
    /\ UNCHANGED <<circuit_open, consecutive_failures, genPc, genSawOpen, genNet,
                   genRet, chkPc, prober, streak>>
    /\ UNCHANGED <<poolVars, chainVars, cacheVars, busVars, queueVars>>

\* LlmClient.__init__: a service object constructs a client of its own
\* (AutoCorrectionService, SummarizationService, SpeakerService, ...), which
\* starts CLOSED and reports INITIALIZING to the shared health service; k is
\* a slot that holds no client with an open circuit
ClientNew(k) ==
    /\ ~client_open[k]
    /\ set_llm_status("initializing", "None")
    /\ last_published' = set_llm_status_publishes("initializing", "None")
    /\ UNCHANGED <<client_open, transcriber_status, speaker_diarization_status>>
    /\ UNCHANGED <<circuit_open, consecutive_failures, genPc, genSawOpen, genNet,
                   genRet, chkPc, prober, streak>>
    /\ UNCHANGED <<poolVars, chainVars, cacheVars, busVars, queueVars>>

\* check_connection of a client finds the server up and the model missing
ClientModelMissing ==
    /\ set_llm_status("unavailable", "model_missing")
    /\ last_published' = set_llm_status_publishes("unavailable", "model_missing")
    /\ UNCHANGED <<client_open, transcriber_status, speaker_diarization_status>>
    /\ UNCHANGED <<circuit_open, consecutive_failures, genPc, genSawOpen, genNet,
                   genRet, chkPc, prober, streak>>
    /\ UNCHANGED <<poolVars, chainVars, cacheVars, busVars, queueVars>>

\* set_transcriber_status, as application start-up calls it
set_transcriber_status(status) ==
    /\ status \in {"initializing", "ready", "error"}
    /\ transcriber_status' = status
    /\ last_published' = system_status(status, llm_status, llm_error,
                                       speaker_diarization_status)
    /\ UNCHANGED <<client_open, speaker_diarization_status>>
    /\ UNCHANGED <<circuitVars, poolVars, chainVars, cacheVars, busVars, queueVars>>

\* set_speaker_diarization_status, as _init_pipeline calls it
set_speaker_diarization_status(status) ==
    /\ status \in {"ready", "unavailable"}
    /\ speaker_diarization_status' = status
    /\ last_published' = system_status(transcriber_status, llm_status, llm_error,
                                       status)
    /\ UNCHANGED <<client_open, transcriber_status>>
    /\ UNCHANGED <<circuitVars, poolVars, chainVars, cacheVars, busVars, queueVars>>

ServiceStatus == {"ready", "initializing", "degraded", "error", "unavailable"}

HealthNext ==
    \/ \E k \in Clients, reason \in TripReasons : ClientTrip(k, reason)
    \/ \E k \in Clients : ClientReset(k)
    \/ \E k \in Clients : ClientNew(k)
    \/ ClientModelMissing
    \/ \E status \in ServiceStatus : set_transcriber_status(status)
    \/ \E status \in ServiceStatus : set_speaker_diarization_status(status)

(***************************************************************************)
(* EventService (services/event_service.py) and the SSE endpoint           *)
(* events_stream (api/v1/endpoints/system.py)                              *)
(***************************************************************************)
Streams == 1..MaxStreams

\* a channel name, split at the prefix that the pattern "app:*" tests
Channels == {<<"app:", "task_1">>, <<"", "system_status">>, <<"", "queue_update">>}

\* psubscribe("app:*"): the channels the pattern matches
PatternMatches(channel) == channel[1] = "app:"

\* how a publish_event call can go: json.dumps raises, redis publish raises,
\* or Redis accepts the message
PublishOutcomes == {"ok", "dumps raised", "publish raised"}

\* publish_event: `except Exception` around both calls
publish_event_result_propagating(outcome) ==
    IF outcome = "ok" THEN "returned" ELSE "raised"
publish_event_result(outcome) == "returned"

\* the connections Redis sends a message of the channel to
Subscribers_connected(channel) ==
    {s \in Streams : streamPc[s] \notin {"closed", "done"} /\ PatternMatches(channel)}
Subscribers(channel) ==
    {s \in Streams : streamPc[s] = "listening" /\ PatternMatches(channel)}

EventServiceInit ==
    /\ pubCount = 0
    /\ last_publish = [outcome |-> "none", result |-> "none"]
    /\ streamPc = [s \in Streams |-> "closed"]
    /\ task_id = [s \in Streams |-> FALSE]
    /\ task_read = [s \in Streams |-> "none"]
    /\ inbox = [s \in Streams |-> <<>>]
    /\ out = [s \in Streams |-> <<>>]
    /\ sub_from = [s \in Streams |-> 0]

\* one call of publish_event(channel, ...)
PublishEvent(channel, outcome) ==
    /\ last_publish' = [outcome |-> outcome, result |-> publish_event_result(outcome)]
    /\ IF outcome = "ok"
       THEN /\ pubCount < MaxPublished
            /\ pubCount' = pubCount + 1
            /\ inbox' = [s \in Streams |->
                            IF s \in Subscribers(channel)
                            THEN Append(inbox[s], [kind |-> "message", seq |-> pubCount + 1])
                            ELSE inbox[s]]
       ELSE UNCHANGED <<pubCount, inbox>>
    /\ UNCHANGED <<streamPc, task_id, task_read, out, sub_from>>
    /\ UNCHANGED <<circuitVars, poolVars, chainVars, cacheVars, healthVars, queueVars>>

\* `if task_id:` after the health snapshot
after_snapshot_never_task(given) == "subscribe"
after_snapshot(given) == IF given THEN "task" ELSE "subscribe"

\* GET /events: the generator starts and yields the health snapshot
StreamConnect(s, given) ==
    /\ streamPc[s] = "closed"
    /\ task_id' = [task_id EXCEPT ![s] = given]
    /\ out' = [out EXCEPT ![s] = Append(@, [kind |-> "system_status", seq |-> 0])]
    /\ streamPc' = [streamPc EXCEPT ![s] = after_snapshot(given)]
    /\ UNCHANGED <<pubCount, last_publish, task_read, inbox, sub_from>>
    /\ UNCHANGED <<circuitVars, poolVars, chainVars, cacheVars, healthVars, queueVars>>

\* `if task_id:` the task's status is read and yielded, or the read raises
\* and is logged
StreamTaskStatus(s, read) ==
    /\ streamPc[s] = "task"
    /\ read \in {"ok", "raised"}
    /\ task_read' = [task_read EXCEPT ![s] = read]
    /\ out' = [out EXCEPT ![s] =
                  IF read = "ok"
                  THEN Append(@, [kind |-> "task_progress", seq |-> 0])
                  ELSE @]
    /\ streamPc' = [streamPc EXCEPT ![s] = "subscribe"]
    /\ UNCHANGED <<pubCount, last_publish, task_id, inbox, sub_from>>
    /\ UNCHANGED <<circuitVars, poolVars, chainVars, cacheVars, healthVars, queueVars>>

\* stream_events: psubscribe(channel_pattern) returns
StreamSubscribe(s) ==
    /\ streamPc[s] = "subscribe"
    /\ streamPc' = [streamPc EXCEPT ![s] = "listening"]
    /\ sub_from' = [sub_from EXCEPT ![s] = pubCount]
    /\ UNCHANGED <<pubCount, last_publish, task_id, task_read, inbox, out>>
    /\ UNCHANGED <<circuitVars, poolVars, chainVars, cacheVars, healthVars, queueVars>>

\* pubsub.listen() hands over the next pmessage; events_stream yields it
\* unless the client has disconnected
StreamYield(s, disconnected) ==
    /\ streamPc[s] = "listening"
    /\ inbox[s] # <<>>
    /\ inbox' = [inbox EXCEPT ![s] = Tail(@)]
    /\ IF disconnected
       THEN /\ streamPc' = [streamPc EXCEPT ![s] = "done"]
            /\ UNCHANGED out
       ELSE /\ out' = [out EXCEPT ![s] = Append(@, Head(inbox[s]))]
            /\ UNCHANGED streamPc
    /\ UNCHANGED <<pubCount, last_publish, task_id, task_read, sub_from>>
    /\ UNCHANGED <<circuitVars, poolVars, chainVars, cacheVars, healthVars, queueVars>>

\* psubscribe or listen raises: stream_events yields an error event and ends
StreamError(s) ==
    /\ streamPc[s] \in {"subscribe", "listening"}
    /\ out' = [out EXCEPT ![s] = Append(@, [kind |-> "error", seq |-> 0])]
    /\ streamPc' = [streamPc EXCEPT ![s] = "done"]
    /\ UNCHANGED <<pubCount, last_publish, task_id, task_read, inbox, sub_from>>
    /\ UNCHANGED <<circuitVars, poolVars, chainVars, cacheVars, healthVars, queueVars>>

BusNext ==
    \/ \E channel \in Channels, outcome \in PublishOutcomes : PublishEvent(channel, outcome)
    \/ \E s \in Streams, given \in BOOLEAN : StreamConnect(s, given)
    \/ \E s \in Streams, read \in {"ok", "raised"} : StreamTaskStatus(s, read)
    \/ \E s \in Streams : StreamSubscribe(s)
    \/ \E s \in Streams, disconnected \in BOOLEAN : StreamYield(s, disconnected)
    \/ \E s \in Streams : StreamError(s)

(***************************************************************************)
(* The queue endpoints (api/v1/endpoints/system.py) and                    *)
(* QueueService.get_queue_stats (services/queue_service.py), over the      *)
(* Redis broker and the workers of Celery                                  *)
(***************************************************************************)
\* the queues get_queue_stats inspects
Lanes == {"transcription", "processing", "maintenance", "celery"}

TaskIds == 1..MaxTasks

BrokerInit ==
    /\ broker = [name \in Lanes |-> <<>>]
    /\ revoked = {}
    /\ sent = 0

\* parse_broker_queue: lrange(queue_name, 0, limit - 1), and
\* pending_counts: the number of items read from each queue
pending_counts(lists) ==
    [name \in Lanes |->
        IF Len(lists[name]) < limit THEN Len(lists[name]) ELSE limit]

\* "pending_total": sum(pending_counts.values())
pending_total(counts) ==
    counts["transcription"] + counts["processing"] + counts["maintenance"]
      + counts["celery"]

\* a task is sent (.delay / apply_async) to a queue, as long as fewer than
\* `most` tasks have been sent
SendUpTo(name, most) ==
    /\ sent < most
    /\ sent' = sent + 1
    /\ broker' = [broker EXCEPT ![name] = Append(@, sent + 1)]
    /\ UNCHANGED revoked
    /\ UNCHANGED <<circuitVars, poolVars, chainVars, cacheVars, healthVars, busVars>>

SendTask(name) == SendUpTo(name, MaxTasks)

\* a worker takes the next message of a queue; it runs the task, or drops it
\* when its id is in the revoked set
WorkerTake(name) ==
    /\ broker[name] # <<>>
    /\ broker' = [broker EXCEPT ![name] = Tail(@)]
    /\ UNCHANGED <<revoked, sent>>
    /\ UNCHANGED <<circuitVars, poolVars, chainVars, cacheVars, healthVars, busVars>>

\* POST /queues/revoke/{task_id}: control.revoke(task_id, terminate=False)
\* tells the workers to discard the task when they receive it
revoke_task(id) ==
    /\ revoked' = revoked \cup {id}
    /\ UNCHANGED <<broker, sent>>
    /\ UNCHANGED <<circuitVars, poolVars, chainVars, cacheVars, healthVars, busVars>>

\* POST /queues/purge: control.purge() discards the waiting messages
purge_queues ==
    /\ broker' = [name \in Lanes |-> <<>>]
    /\ UNCHANGED <<revoked, sent>>
    /\ UNCHANGED <<circuitVars, poolVars, chainVars, cacheVars, healthVars, busVars>>

QueueNext ==
    \/ \E name \in Lanes : SendTask(name)
    \/ \E name \in Lanes : WorkerTake(name)
    \/ \E id \in TaskIds : revoke_task(id)
    \/ purge_queues

\* uploads arrive faster than the transcription worker takes them: the
\* backlog of the transcription queue grows past what one lrange reads
BacklogNext ==
    \/ SendUpTo("transcription", MaxBacklog)
    \/ WorkerTake("transcription")
    \/ purge_queues

(***************************************************************************)
(* GET /tasks/{task_id} (api/v1/endpoints/system.py): the answer for a     *)
(* task whose Celery state is st; the result backend reports PENDING for   *)
(* an id it has no record of                                               *)
(***************************************************************************)
get_task_status(st) ==
    [status |-> IF st = "none" THEN "PENDING" ELSE st,
     result |-> IF st \in {"SUCCESS", "FAILURE", "REVOKED"} /\ st # "FAILURE"
                THEN "result" ELSE "None",
     error  |-> IF st = "FAILURE" THEN "error" ELSE "None"]

CircuitNext ==
    \/ \E c \in GenCallers : GenerateCall(c)
    \/ \E c \in GenCallers : GenerateOk(c)
    \/ \E c \in GenCallers : GenerateFail(c)
    \/ CheckCall
    \/ CheckReturn
    \/ \E p \in Probers : ProberLoopTest(p)
    \/ \E p \in Probers : ProberWake(p)
    \/ \E p \in Probers : ProberProbe(p)
    \/ \E p \in Probers : ProberBreak(p)

(***************************************************************************)
(* asyncio.run(...) in a worker task (tasks.py): when the coroutine it runs *)
(* has returned, the event loop cancels the tasks still pending in it and  *)
(* closes; the LlmClient object outlives the loop                          *)
(***************************************************************************)
LoopEnd ==
    /\ \A c \in GenCallers : genPc[c] = "idle"
    /\ chkPc = "idle"
    /\ prober' = [p \in Probers |-> "dead"]
    /\ UNCHANGED <<circuit_open, consecutive_failures, genPc, genSawOpen, genNet,
                   genRet, chkPc, streak, llm_status, llm_error>>
    /\ UNCHANGED <<poolVars, chainVars, cacheVars, auxVars>>

\* the client as the worker tasks use it: one event loop per call
CircuitWorkerNext ==
    \/ CircuitNext
    \/ LoopEnd

Init ==
    /\ LlmClientInit /\ TranscriberInit /\ ChainInit /\ TranscriberCacheInit
    /\ HealthInit /\ EventServiceInit /\ BrokerInit

SpecCircuit == Init /\ [][CircuitNext]_vars

SpecHealth == Init /\ [][HealthNext]_vars

SpecBus == Init /\ [][BusNext]_vars

SpecBacklog == Init /\ [][BacklogNext]_vars

SpecQueue == Init /\ [][QueueNext]_vars

SpecCircuitWorker == Init /\ [][CircuitWorkerNext]_vars

SpecPool == Init /\ [][PoolNext]_vars

\* the pool with callers that may be cancelled
PoolCancelNext ==
    \/ PoolNext
    \/ \E c \in TranscribeCallers : TranscribeCancel(c)

SpecPoolCancel == Init /\ [][PoolCancelNext]_vars

SpecCacheSeq == Init /\ [][CacheSeqNext]_vars

SpecCache == Init /\ [][CacheNext]_vars

SpecPipeline == Init /\ [][ChainNext]_vars

\* the chain together with summaries requested by hand
SummarizeNext ==
    \/ ChainNext
    \/ SummarizeManual

SpecSummarize == Init /\ [][SummarizeNext]_vars

(***************************************************************************)
(* Claims about the circuit breaker (SpecCircuit)                          *)
(***************************************************************************)
NoGenerateInFlight == \A c \in GenCallers : genPc[c] = "idle"

\* a step in which a check_connection probe (of the prober or of another
\* caller) comes back with the model found
ProbeSucceeds ==
    \/ chkPc = "awaiting" /\ chkPc' = "idle" /\ llm_status' = "ready"
    \/ \E p \in Probers : prober[p] = "probing" /\ prober'[p] = "ret_true"

\* a step in which a check_connection probe comes back with a bad status or
\* an exception
ProbeFails ==
    \/ chkPc = "awaiting" /\ chkPc' = "idle"
    \/ \E p \in Probers : prober[p] = "probing" /\ prober'[p] = "ret_false"

\* a step in which a generate() call gets a failure back
GenerateFails ==
    \E c \in GenCallers : genPc[c] = "awaiting" /\ genPc'[c] = "idle" /\ genRet'[c] = "none"

C6_TripsAtThreshold == streak >= max_failures => circuit_open

C6_ShortCircuited ==
    \A c \in GenCallers :
        genSawOpen[c] => (~genNet[c] /\ genRet[c] = "none" /\ genPc[c] = "idle")

C6_OpenUntilProbe ==
    (circuit_open /\ ~circuit_open' /\ NoGenerateInFlight) => ProbeSucceeds

C7_OpensOnlyAtThreshold ==
    [][(~circuit_open /\ circuit_open') => consecutive_failures' >= max_failures]_vars

\* C7 as amended: the circuit opens only in a generate() call whose failure
\* brings consecutive_failures to max_failures, or in a check_connection
\* probe that fails (whatever the failure count).
C7_OpensAtThresholdOrFailedProbe ==
    [][(~circuit_open /\ circuit_open') =>
          \/ GenerateFails /\ consecutive_failures' >= max_failures
          \/ ProbeFails /\ ~GenerateFails]_vars

\* a failed probe has opened the circuit below the threshold
C7_Witness ==
    /\ circuit_open
    /\ consecutive_failures < max_failures
    /\ llm_error \in {"ollama_returned", "connection_failed"}

\* C8: an open circuit is closed only by a successful probe of its
\* background prober.
C8_OnlyProberCloses ==
    [][(circuit_open /\ ~circuit_open') =>
          \E p \in Probers : prober[p] = "probing" /\ prober'[p] = "ret_true"]_vars

\* C9: at most one recovery prober is alive per LlmClient at any time (here:
\* at most one _monitor_recovery task is inside its probing loop).
C9_AtMostOneProber == Cardinality(ProbersInLoop) <= 1

(***************************************************************************)
(* Claims about the transcriber handles (SpecPool)                         *)
(***************************************************************************)
\* C10: at every handle, the number of calls that run conversion or
\* inference at the same time never exceeds max_concurrency.
C10_ConcurrencyBounded ==
    \A h \in Handles : Cardinality(Executing(h)) <= max_concurrency

\* more callers than slots: max_concurrency calls execute, another one waits
C10_Witness ==
    \E h \in Handles :
        /\ Cardinality(Executing(h)) = max_concurrency
        /\ sem_waiters[h] # <<>>


(***************************************************************************)
(* The task chain (SpecPipeline)                                           *)
(***************************************************************************)
\* the fixed stage order transcribe -> auto-correct -> speaker-identify -> summarize
StageOrder == {<<"transcribe", "auto_correct">>, <<"auto_correct", "speaker_ident">>,
               <<"speaker_ident", "summary">>}

Ended(stage) == state[stage] \in {"SUCCESS", "FAILURE"}

\* C1: a degradable stage whose payload carries a valid id has enqueued its
\* successor by the time it ends, whatever happened inside the stage: an
\* exception in the stage does not halt the chain.
C1_DegradableStageEnqueuesSuccessor ==
    \A e \in StageOrder :
        (e[1] # "transcribe" /\ Ended(e[1]) /\ ValidId(payload[e[1]]))
            => enqueued[e] >= 1

\* C2: the transcription stage is retried at most max_retries = 3 times with
\* a countdown that doubles from one retry to the next; once the retries are
\* exhausted the job is in FAILURE, the failure event of the last attempt has
\* been published, and no downstream stage was enqueued or has run.
C2_BoundedRetryThenFailure ==
    /\ retries["transcribe"] <= 3
    /\ state["transcribe"] = "RETRY"
         => /\ retries["transcribe"] >= 1
            /\ countdown = 2 ^ (retries["transcribe"] - 1)
    /\ state["transcribe"] = "FAILURE"
         => /\ retries["transcribe"] = 3
            /\ \E ev \in events : /\ ev.type = "task_failed"
                                  /\ ev.channel = TaskId
                                  /\ ev.attempt = 4
            /\ \A s \in Downstream : state[s] = "none"
            /\ \A e \in Stages \X Tasks : enqueued[e] = 0

\* the retries are exhausted and the job has failed, after backing off
C2_Witness ==
    /\ state["transcribe"] = "FAILURE"
    /\ retries["transcribe"] = 3
    /\ countdown = 4

\* C3: a downstream stage is enqueued, and runs, only for a job whose
\* transcription record is committed, and speaker-identify is enqueued with
\* a corrected text only after that correction is committed.
C3_CommittedBeforeEnqueued ==
    /\ \A s \in Downstream :
          state[s] # "none" => payload[s].id \in db_transcriptions
    /\ (\E e \in StageOrder : enqueued[e] >= 1) => db_transcriptions # {}
    /\ (state["speaker_ident"] # "none"
          /\ payload["speaker_ident"].corrected_text \notin {"", "absent"})
         => payload["speaker_ident"].id \in db_corrections

\* speaker-identify begins for a job whose correction was produced
C3_Witness ==
    /\ At("speaker_ident", "work")
    /\ payload["speaker_ident"].corrected_text = "corrected"
    /\ payload["speaker_ident"].id \in db_corrections

\* C4: the stages run in the order of StageOrder: a stage enqueues only its
\* successor and at most once, a non-terminal stage that completes has
\* enqueued its successor exactly once, no stage is enqueued before its
\* predecessor has run, and summarize enqueues nothing and returns the
\* payload it was given.
C4_FixedStageOrder ==
    /\ \A e \in Stages \X Stages :
          /\ enqueued[e] <= 1
          /\ enqueued[e] = 1 => e \in StageOrder
    /\ \A e \in StageOrder :
          /\ state[e[1]] = "SUCCESS" => enqueued[e] = 1
          /\ state[e[2]] # "none"
               => /\ enqueued[e] = 1
                  /\ state[e[1]] \in {"STARTED", "SUCCESS"}
    /\ \A t \in Tasks : enqueued[<<"summary", t>>] = 0
    /\ state["summary"] = "SUCCESS"
         => /\ returned = payload["summary"]
            /\ ValidId(returned)

\* the whole chain has run and the last stage has returned
C4_Witness ==
    /\ \A s \in Stages : state[s] = "SUCCESS"
    /\ ValidId(returned)

\* C5: every event a stage of the job publishes goes to the channel of the
\* root job id, the id of the task created at submission.
C5_OneChannelPerJob == \A ev \in events : ev.channel = TaskId


(***************************************************************************)
(* Slots of a handle (SpecPoolCancel)                                      *)
(***************************************************************************)
\* the calls that hold a slot of handle h
SlotHolders(h) ==
    {c \in TranscribeCallers :
        txHandle[c] = h /\ txPc[c] \in {"woken", "converting", "inferring"}}

\* C11: a call runs conversion or inference only while it holds a slot, the
\* free and the held slots of a handle always add up to the limit, and when
\* every transcribe() call has finished (returned, raised or cancelled) all
\* slots of the handle are free again and nobody is queued.
C11_NoSlotLeaks ==
    \A h \in Handles :
        semaphore[h] # "None" =>
            /\ Executing(h) \subseteq SlotHolders(h)
            /\ sem_value[h] + Cardinality(SlotHolders(h)) = max_concurrency
            /\ (\A c \in TranscribeCallers : txPc[c] = "idle")
                   => sem_value[h] = max_concurrency /\ sem_waiters[h] = <<>>

\* all calls are over, one by each exit path, and the slots are free again
C11_Witness ==
    /\ \A c \in TranscribeCallers : txPc[c] = "idle"
    /\ {txResult[c] : c \in TranscribeCallers} = {"returned", "raised", "cancelled"}
    /\ \E h \in Handles : semaphore[h] # "None" /\ sem_value[h] = max_concurrency


(***************************************************************************)
(* The transcriber cache (SpecCacheSeq, SpecCache)                         *)
(***************************************************************************)
GotTranscriber(c) == gtPc[c] = "idle" /\ gtRet[c][1] = "transcriber"

C12_ReturnsCachedHandle ==
    \A c \in CacheCallers : GotTranscriber(c) => gtRet[c] = cache[gtKey[c]]

C12_CachedKeyIsKept ==
    \A k \in CacheKeys :
        cache[k] # NoHandle
            => /\ cache'[k] = cache[k]
               /\ warm_up_calls'[k] = warm_up_calls[k]
               /\ \A c \in CacheCallers :
                     (gtRet'[c] # gtRet[c] /\ gtKey'[c] = k) => gtRet'[c] = cache[k]

\* C12: for requests made one after the other, a key that is cached keeps
\* its handle and its warm-up count for good: every request for it returns
\* that same handle and invokes no warm-up, and every caller that got a
\* handle holds the cached one.
C12_WarmUpOncePerCachedKey ==
    []C12_ReturnsCachedHandle /\ [][C12_CachedKeyIsKept]_vars

\* two requests for one key have returned the same handle after one warm-up
C12_Witness ==
    /\ \A c \in CacheCallers : GotTranscriber(c)
    /\ \A c, d \in CacheCallers : gtRet[c] = gtRet[d]
    /\ warm_up_calls[gtKey[1]] = 1

\* C13: callers that request the same uncached key concurrently all get the
\* same handle, and only one handle is created and warmed up for the key.
C13_SingleWinner ==
    /\ \A c, d \in CacheCallers :
          (GotTranscriber(c) /\ GotTranscriber(d) /\ gtKey[c] = gtKey[d])
              => gtRet[c] = gtRet[d]
    /\ \A c, d \in CacheCallers :
          (gtPc[c] = "warm_up" /\ gtPc[d] = "warm_up" /\ gtKey[c] = gtKey[d])
              => c = d

\* C14: once the warm-up for a key has failed, the key is never cached and
\* no later request invokes warm-up for it.
C14_FailedKeyStaysUnusable ==
    \A c \in CacheCallers :
        gtRet[c] = <<"warm_up raised", 0>>
            => /\ cache[gtKey[c]] = NoHandle
               /\ \A d \in CacheCallers :
                     ~(gtPc[d] = "warm_up" /\ gtKey[d] = gtKey[c])


(***************************************************************************)
(* The transcribe stage: pre-pass and parallel pair (SpecPipeline)         *)
(***************************************************************************)
\* the attempt has left gather with results and not yet returned
AfterGather == state["transcribe"] = "STARTED"
               /\ pc["transcribe"] \in {"save", "enqueue", "publish"}

C15_JoinInv ==
    /\ AfterGather
         => /\ attempt.transcription = "returned"
            /\ attempt.diarization \in {"raised", "empty", "segments"}
            /\ payload["transcribe"].text = attempt.text
    /\ (AfterGather /\ attempt.diarization = "raised")
         => /\ payload["transcribe"].speakers = {}
            /\ pc["transcribe"] \in {"enqueue", "publish"}
                 => payload["transcribe"].id \in db_transcriptions
            /\ pc["transcribe"] = "publish"
                 => /\ enqueued[<<"transcribe", "auto_correct">>] = 1
                    /\ payload["auto_correct"].id = payload["transcribe"].id
                    /\ payload["auto_correct"].speakers = {}

C15_JoinStep ==
    (At("transcribe", "gather") /\ attempt.transcription = "returned"
        /\ attempt.diarization = "raised")
      => pc'["transcribe"] \in {"gather", "save"}

\* C15: when the transcription returned and the speaker segmentation raised,
\* the attempt goes on (it does not fail), the payload has the transcript
\* text and no speaker label, the record is persisted and auto-correct is
\* enqueued with that payload; the payload is assembled only once both
\* operations have finished.
C15_PartialFailureJoin == []C15_JoinInv /\ [][C15_JoinStep]_vars

\* segmentation raised, the text was transcribed, auto-correct is enqueued
C15_Witness ==
    /\ At("transcribe", "publish")
    /\ attempt.diarization = "raised"
    /\ attempt.text = "long"
    /\ enqueued[<<"transcribe", "auto_correct">>] = 1

C17_PrepassInv ==
    (state["transcribe"] = "STARTED" /\ attempt.prepass \in PrepassFailures)
      => /\ attempt.context_keywords = ""
         /\ pc["transcribe"] \in {"gather", "save", "enqueue", "publish"}
              => attempt.final_prompt = "None"
         /\ AfterGather => payload["transcribe"].context_keywords = ""

C17_PrepassStep ==
    At("transcribe", "scan") => pc'["transcribe"] \in {"scan", "main"}

\* C17: no failure of the pre-pass fails the attempt: the main pass always
\* follows, and after a failed pre-pass it runs with no prompt and the
\* payload carries no context keywords.
C17_PrepassBestEffort == []C17_PrepassInv /\ [][C17_PrepassStep]_vars

\* the fast transcription raised and the main pass has produced its payload
C17_Witness ==
    /\ At("transcribe", "publish")
    /\ attempt.prepass = "transcribe raised"
    /\ attempt.final_prompt = "None"
    /\ attempt.text = "long"


(***************************************************************************)
(* The summarize stage (SpecSummarize)                                     *)
(***************************************************************************)
\* C16: the summarize stage works on the payload's corrected_text when that
\* is present and not empty, and otherwise on the payload's text; a payload
\* with an id and text but no corrected_text key is summarized from text.
C16_SummarizesCorrectedElseText ==
    (state["summary"] = "SUCCESS" /\ ValidId(payload["summary"]))
      => /\ Present(payload["summary"].corrected_text)
              => summarized = [source |-> "corrected_text",
                               text |-> payload["summary"].corrected_text]
         /\ (~Present(payload["summary"].corrected_text)
               /\ Present(payload["summary"].text))
              => summarized = [source |-> "text", text |-> payload["summary"].text]
         /\ payload["summary"].summary_status = "complete"
              => LongEnough(summarized.text)

\* a payload with text and no corrected_text key was summarized from text
C16_Witness ==
    /\ state["summary"] = "SUCCESS"
    /\ payload["summary"].corrected_text = "absent"
    /\ payload["summary"].summary_status = "complete"
    /\ summarized = [source |-> "text", text |-> "long"]


(***************************************************************************)
(* Speaker naming (SpecPipeline)                                           *)
(***************************************************************************)
\* the speakers detected for the job: the labels of the segments other
\* than the placeholder "Unknown"
DetectedSpeakers(p) == p.speakers \ {"Unknown"}

\* the naming step of speaker-identify is over
NamingOver ==
    \/ At("speaker_ident", "enqueue")
    \/ state["speaker_ident"] = "SUCCESS"

\* C18: with fewer than two detected speakers speaker-identify is a
\* pass-through: no name extraction is attempted, no speaker_name is set, no
\* speakers_identified event is published, and summarize is still enqueued.
C18_PassThroughBelowTwoSpeakers ==
    (NamingOver /\ ValidId(payload["speaker_ident"])
        /\ Cardinality(DetectedSpeakers(payload["speaker_ident"])) < 2)
      => /\ naming = "skipped"
         /\ payload["speaker_ident"].speaker_names = "absent"
         /\ \A ev \in events : ev.type # "speakers_identified"
         /\ state["speaker_ident"] = "SUCCESS"
              => enqueued[<<"speaker_ident", "summary">>] = 1


(***************************************************************************)
(* Failure events of the degradable capabilities (SpecPipeline)            *)
(***************************************************************************)
\* a failure event of a capability has been published
FailurePublished(capability) ==
    \E ev \in events :
        /\ ev.type \in {"task_failed", "summary_failed"}
        /\ ev.stage = capability

\* C19: whenever a degradable capability has failed for the job (context
\* extraction, segmentation, auto-correction, summarization, also a
\* summarization without result), a failure event of that capability has
\* been published.
C19_FailureEventPerCapability ==
    /\ (AfterGather /\ attempt.prepass \in {"get_transcriber raised", "transcribe raised"})
         => FailurePublished("scanning")
    /\ (AfterGather /\ attempt.diarization = "raised")
         => FailurePublished("diarization")
    /\ state["auto_correct"] = "FAILURE" => FailurePublished("auto_correct")
    /\ (state["summary"] = "SUCCESS"
          /\ payload["summary"].summary_status = "failed")
         => FailurePublished("summary")


(***************************************************************************)
(* Callers of the guarded dependency while the circuit is open             *)
(* (SpecCircuit)                                                           *)
(***************************************************************************)
\* C20: while the circuit is open no caller of the LLM client starts a
\* network request: neither a generate() call nor the check_connection()
\* call that speaker naming makes before it generates.
C20_NoRequestWhileOpen ==
    [][circuit_open =>
          /\ \A c \in GenCallers : genPc'[c] = "awaiting" => genPc[c] = "awaiting"
          /\ chkPc' = "awaiting" => chkPc = "awaiting"]_vars


(***************************************************************************)
(* Claims about the health snapshots (SpecHealth)                          *)
(***************************************************************************)
\* C21: every step in which the circuit of some LlmClient changes between
\* CLOSED and OPEN publishes a system_status event.
C21_TransitionPublishes ==
    [][(\E k \in Clients : client_open'[k] # client_open[k])
          => last_published' # NoSnapshot]_vars

\* C22: the overall status get_status() reports has the rank of the worst of
\* the three subsystem statuses, in the order
\* ERROR > DEGRADED/UNAVAILABLE > INITIALIZING > READY.
C22_OverallIsWorst ==
    LET Rank(status) ==
            CASE status = "error" -> 3
              [] status \in {"degraded", "unavailable"} -> 2
              [] status = "initializing" -> 1
              [] status = "ready" -> 0
        statuses == {transcriber_status, llm_status, speaker_diarization_status}
    IN  \E worst \in statuses :
            /\ \A st \in statuses : Rank(st) <= Rank(worst)
            /\ Rank(get_status(transcriber_status, llm_status,
                               speaker_diarization_status)) = Rank(worst)


Received(s) ==
    {i \in 1..Len(out[s]) : out[s][i].kind = "message"}

\* C24: a subscriber receives each published message at most once, and none
\* that was published before its psubscribe returned.
C24_AtMostOnceNoReplay ==
    \A s \in Streams :
        /\ \A i, j \in Received(s) : out[s][i].seq = out[s][j].seq => i = j
        /\ \A i \in Received(s) : out[s][i].seq > sub_from[s]

\* a stream that subscribed after a message was published has received a
\* later message
C24_Witness ==
    \E s \in Streams : sub_from[s] > 0 /\ Received(s) # {}

\* the hydration of the stream is over
Hydrated(s) == streamPc[s] \in {"listening", "done"}

\* C25 as stated: on every connection the health snapshot is the first
\* message, the task's status is the second whenever a task id was given,
\* each is emitted once, and every other message comes after them.
C25_HydrationFirst ==
    \A s \in Streams :
        /\ \A i \in 1..Len(out[s]) :
              /\ out[s][i].kind = "system_status" <=> i = 1
              /\ out[s][i].kind = "task_progress" => i = 2
        /\ Hydrated(s) =>
              /\ Len(out[s]) >= 1
              /\ task_id[s] => (Len(out[s]) >= 2 /\ out[s][2].kind = "task_progress")

\* C25 as amended: on every connection the health snapshot is the first
\* message and is emitted once; when a task id was given the task's status
\* is read, and it is the second message, emitted once, unless reading it
\* raised, in which case it is left out; every other message comes after
\* the hydration messages.
C25_HydrationFirstUnlessReadRaises ==
    \A s \in Streams :
        /\ \A i \in 1..Len(out[s]) :
              /\ out[s][i].kind = "system_status" <=> i = 1
              /\ out[s][i].kind = "task_progress" => (i = 2 /\ task_read[s] = "ok")
        /\ Hydrated(s) =>
              /\ Len(out[s]) >= 1
              /\ task_id[s] => task_read[s] \in {"ok", "raised"}
              /\ (task_id[s] /\ task_read[s] = "ok")
                    => (Len(out[s]) >= 2 /\ out[s][2].kind = "task_progress")

\* a stream for a task has yielded both hydration messages and then a live
\* event
C25_Witness ==
    \E s \in Streams :
        /\ task_id[s] /\ task_read[s] = "ok"
        /\ Len(out[s]) >= 3
        /\ out[s][3].kind = "message"


(***************************************************************************)
(* Claims about the queue endpoints (SpecQueue)                            *)
(***************************************************************************)
\* C26: revoking a task id that is pending in a lane takes it out of the
\* pending count get_queue_stats reports for that lane, and after a purge
\* the pending count of every lane is zero.
C26_RevokeRemovesPending ==
    [][/\ \A id \in TaskIds, name \in Lanes :
             (/\ revoke_task(id)
              /\ \E i \in 1..Len(broker[name]) : broker[name][i] = id)
               => pending_counts(broker')[name] = pending_counts(broker)[name] - 1
       /\ purge_queues => \A name \in Lanes : pending_counts(broker')[name] = 0]_vars


(***************************************************************************)
(* Status polling of the job's task id (SpecPipeline)                      *)
(***************************************************************************)
\* C27: at every moment polling the job's task id answers with a status in
\* {PENDING, STARTED, SUCCESS, FAILURE, UNKNOWN}, with a result only on
\* SUCCESS and an error only on FAILURE.
C27_PolledStatusInContract ==
    LET answer == get_task_status(state["transcribe"])
    IN  /\ answer.status \in {"PENDING", "STARTED", "SUCCESS", "FAILURE", "UNKNOWN"}
        /\ answer.result # "None" => answer.status = "SUCCESS"
        /\ answer.error # "None" => answer.status = "FAILURE"


(***************************************************************************)
(* The fallback of the transcriber cache (SpecCacheSeq)                    *)
(***************************************************************************)
\* C28: while whisper-cpp is unavailable, a get_transcriber("whisper-cpp",
\* size) request is not refused: it is served under the faster-whisper key
\* of that size, gets the handle cached there when there is one, as a direct
\* faster-whisper request does, and over all such requests the handle of
\* that key is warmed up at most once.
C28_FallbackToDefaultEngine ==
    [][\A c \in CacheCallers, m \in ModelSizes :
          (~whisper_cpp_available /\ GetTranscriber(c, "whisper-cpp", m))
            => LET key == cache_key("faster-whisper", m)
               IN  /\ gtRet'[c] # <<"ValueError", 0>>
                   /\ gtKey'[c] = key
                   /\ InCache(key) => gtRet'[c] = cache[key]
                   /\ warm_up_calls'[key] <= 1]_vars


(***************************************************************************)
(* Recovery of a client used by worker tasks (SpecCircuitWorker)           *)
(***************************************************************************)
\* C29: whenever the circuit is OPEN a recovery prober of the client is
\* alive (so that a dependency that stays healthy is found healthy and the
\* circuit returns to CLOSED), also after the event loop in which the
\* circuit tripped has ended.
C29_OpenHasLiveProber == circuit_open => AliveProbers # {}


(***************************************************************************)
(* The failure counter of the circuit breaker (SpecCircuit)                *)
(***************************************************************************)
\* a step in which a generate() call gets status 200 back
GenerateSucceeds ==
    \E c \in GenCallers : genPc[c] = "awaiting" /\ genPc'[c] = "idle" /\ genRet'[c] = "content"

C31_AtMostOneRecord == Cardinality(db_transcriptions) <= 1


(***************************************************************************)
(* Events of a stage execution (SpecPipeline)                              *)
(***************************************************************************)
\* C32: every stage execution (transcribe, auto-correct, speaker-identify,
\* summarize) on a payload with a valid id has published a stage-transition
\* progress event by the time its work starts, and a completion event or a
\* failure event of the stage by the time it has ended.
C32_ProgressThenOutcomeEvent ==
    LET progress == [transcribe |-> {"preprocessing"},
                     auto_correct |-> {"auto_correct", "correcting"},
                     speaker_ident |-> {"identifying_speakers"},
                     summary |-> {"summarizing"}]
        outcome == [transcribe |-> {"transcription_complete", "task_failed"},
                    auto_correct |-> {"correction_complete", "task_failed"},
                    speaker_ident |-> {"speakers_identified", "task_failed"},
                    summary |-> {"summary_complete", "summary_failed"}]
        own == [transcribe |-> {"transcribe"},
                auto_correct |-> {"auto_correct"},
                speaker_ident |-> {"speaker_ident"},
                summary |-> {"summary"}]
    IN  \A stage \in Stages :
          (Ended(stage) /\ ValidId(payload[stage]))
            => /\ \E ev \in events :
                    ev.type = "task_progress" /\ ev.stage \in progress[stage]
               /\ \E ev \in events :
                    ev.type \in outcome[stage] /\ ev.stage \in own[stage]


(***************************************************************************)
(* Speaker names that could not be persisted (SpecPipeline)                *)
(***************************************************************************)
\* C33: when update_speaker_names raises in the speaker-identify stage, the
\* failure stays in that stage: once the stage has returned, summarize has
\* been enqueued, and the payload it is given is the payload
\* speaker-identify received, with no speaker names since none were
\* persisted.
C33_UnsavedNamesStayOut ==
    (naming = "unsaved" /\ state["speaker_ident"] = "SUCCESS")
      => /\ enqueued[<<"speaker_ident", "summary">>] >= 1
         /\ state["summary"] = "PENDING"
              => /\ payload["summary"] = summary_payload(payload["auto_correct"])
                 /\ payload["summary"].speaker_names = "absent"


(***************************************************************************)
(* Failure events of the transcription stage (SpecPipeline)                *)
(***************************************************************************)
\* C37: a task_failed event is final for its job: once one has been
\* published on the channel of a job, no transcription_complete event is
\* published for that job.
C37_FailedIsFinal ==
    \A failed, complete \in events :
        (failed.type = "task_failed" /\ failed.stage = "transcribe"
           /\ complete.type = "transcription_complete")
          => failed.channel # complete.channel


\* C40: the delay requested before the k-th retry of the transcription stage
\* (k = 1, 2, 3) is 2^k seconds: 2 s, 4 s and 8 s.
C40_DelayDoublesFromTwo ==
    [][\A k \in 1..transcribe_max_retries :
          (state'["transcribe"] = "RETRY" /\ state["transcribe"] # "RETRY"
             /\ retries'["transcribe"] = k)
            => countdown' = 2 ^ k]_vars


(***************************************************************************)
(* What a connected subscriber of GET /events is handed (SpecBus)          *)
(***************************************************************************)
\* C34: while a subscriber is connected, every message that a producer
\* publishes on the event bus (a job event of the orchestrator, a
\* system_status snapshot of the health monitor, a queue_update sample of
\* the queue sampler) is handed to its stream, once, to be emitted as a data
\* event.
C34_EveryProducerReachesStream ==
    [][\A channel \in Channels, s \in Streams :
          (streamPc[s] = "listening" /\ PublishEvent(channel, "ok"))
            => inbox'[s] = Append(inbox[s], [kind |-> "message", seq |-> pubCount + 1])]_vars


\* C36: no live event is lost between hydration and streaming: every event
\* published on a channel the pattern matches after the hydration snapshot
\* of a connection was taken is delivered to that connection, wherever the
\* connection is in its set-up when the publisher runs.
C36_NoEventLostAfterHydration ==
    [][\A channel \in Channels, s \in Streams :
          (/\ PatternMatches(channel)
           /\ streamPc[s] \in {"task", "subscribe", "listening"}
           /\ PublishEvent(channel, "ok"))
            => inbox'[s] = Append(inbox[s], [kind |-> "message", seq |-> pubCount + 1])]_vars


(***************************************************************************)
(* Several LlmClient objects and the shared health service (SpecHealth)    *)
(***************************************************************************)
\* C35: whenever the circuit of some LlmClient of the process is OPEN, the
\* shared health service reports the LLM subsystem as UNAVAILABLE: the
\* construction of another LlmClient, or a success on another LlmClient,
\* does not change the report while that circuit is still OPEN.
C35_OpenCircuitIsReported ==
    (\E k \in Clients : client_open[k]) => llm_status = "unavailable"


(***************************************************************************)
(* The failure counter against the threshold (SpecCircuit)                 *)
(***************************************************************************)
\* C38: in every reachable state of an LlmClient a CLOSED circuit has
\* consecutive_failures < max_failures, however the concurrent generate()
\* calls, the check_connection calls and the steps of the prober interleave.
C38_ClosedBelowThreshold ==
    ~circuit_open => consecutive_failures < max_failures

\* the circuit has tripped and has been closed again (a prober is still in
\* its loop), a later call has failed and another call is in flight: the
\* counter is one below the threshold
C38_Witness ==
    /\ ~circuit_open
    /\ consecutive_failures = max_failures - 1
    /\ AliveProbers # {}
    /\ \E c \in GenCallers : genPc[c] = "awaiting"


(***************************************************************************)
(* Pending counts of a queue snapshot (SpecBacklog)                        *)
(***************************************************************************)
\* C39: in every snapshot of get_queue_stats the pending count of each lane
\* is the number of tasks pending in the broker queue of that lane at that
\* moment, whatever the size of the backlog, and pending_total is the sum of
\* the pending counts of the lanes.
C39_PendingCountIsBacklog ==
    /\ \A name \in Lanes : pending_counts(broker)[name] = Len(broker[name])
    /\ LET counts == pending_counts(broker)
           total[names \in SUBSET Lanes] ==
               IF names = {} THEN 0
               ELSE LET name == CHOOSE n \in names : TRUE
                    IN  counts[name] + total[names \ {name}]
       IN  pending_total(counts) = total[Lanes]

====
